---- MODULE Spec2Model ----
(***************************************************************************)
(* A model of the evaluator orchestration of kids-video-evaluator:         *)
(*   - evaluate_with_retry of src/src/evaluator.py ("api") and             *)
(*     src/src/evaluator_claude_code.py ("cli");                           *)
(*   - sample_frames, save_evaluation, load_video_data of                  *)
(*     src/pipeline/evaluators/base.py;                                    *)
(*   - the batch-then-synthesize pipeline of ollama_evaluator.py;          *)
(*   - one evaluation run of pipeline/evaluate_video.py with the cost      *)
(*     ledger of pipeline/cost_tracker.py.                                 *)
(* Each part has its own specification (SpecRetry, SpecSample, SpecOllama, *)
(* SpecRun); the variables of the other parts stay at their idle values.   *)
(***************************************************************************)
EXTENDS Integers, Sequences, FiniteSets, TLC

VARIABLES
    \* ---- evaluate_with_retry
    variant,        \* which evaluator: "api" (evaluator.py) or "cli" (evaluator_claude_code.py)
    max_retries,    \* the max_retries argument
    attempt,        \* the loop variable of `for attempt in range(max_retries + 1)`
    causes,         \* what happened to the underlying call of each attempt made, in order
    rpc,            \* "loop" | "returned" | "raised"
    raised,         \* the exception that left evaluate_with_retry, or NoExc
    returned,       \* the value returned, or None
    \* ---- sample_frames, called on its own
    s_frames,       \* all_frames
    s_strategy,     \* sampling_strategy
    s_max,          \* max_frames
    s_pc,           \* "call" | "done"
    s_result,       \* what the call gave: [ok, frames, err]
    \* ---- OllamaEvaluator.evaluate
    o_frames,       \* the frames argument
    o_strategy,     \* self.sampling_strategy
    o_max_frames,   \* self.max_frames
    o_models,       \* [vision_model, synthesis_model] of the evaluator
    batch_size,     \* self.batch_size
    opc,            \* "init" | "sampled" | "batch_loop" | "done" | "failed"
    selected_frames,\* evaluate: selected_frames
    batches,        \* _analyze_batches: batches
    partial_analyses, \* _analyze_batches: partial_analyses
    vision_log,     \* the calls of the vision model made so far, in order
    synth_log,      \* the calls of the synthesis model made so far, in order
    o_result,       \* the dictionary evaluate returned, or None
    o_error,        \* where evaluate failed and with what, or NoOllamaError
    o_ledger,       \* the lines of the cost ledger during the evaluation
    \* ---- evaluation runs (evaluate_video.py main)
    run,            \* the number of the current run, from 1
    backend,        \* --evaluator of the current run
    rubric,         \* --rubric of the current run
    runpc,          \* "start" | "loaded" | "sampled" | "evaluated" | "saved" | "failed"
    failed_at,      \* the step the current run failed in, or None
    clock,          \* datetime.now(), in seconds
    ledger,         \* data/cost_log.jsonl: the entries, in file order
    files,          \* the files of data/<video_id>/evaluations/
    saves,          \* the number of save_evaluation calls that returned
    \* ---- ClaudeEvaluator (pipeline/evaluators/claude_evaluator.py)
    c_requested,    \* the max_frames argument of the constructor
    c_max_frames,   \* self.max_frames
    c_strategy,     \* self.sampling_strategy
    c_frames,       \* the frames argument of evaluate
    cpc,            \* "init" | "sampled" | "called" | "done" | "failed"
    c_selected,     \* evaluate: selected_frames
    c_prompt,       \* the frame paths enumerated in the prompt
    c_process,      \* what the claude subprocess did, or None
    c_text,         \* evaluate: evaluation_text
    c_result,       \* the dictionary evaluate returned, or NoClaudeResult
    c_error,        \* the exception that left evaluate, or NoExc
    c_ledger,       \* data/cost_log.jsonl: the entries, in file order
    \* ---- load_video_data: the directory data/<video_id> and the call
    l_video_dir,    \* whether data/<video_id> exists
    l_metadata,     \* metadata.json: "absent" | "valid" | "invalid"
    l_transcript_txt,  \* transcript.txt: "absent" | "present"
    l_transcript_json, \* transcript.json: "absent" | "valid" | "invalid"
    l_frames_dir,   \* whether frames/ exists
    l_entries,      \* the files of frames/
    lpc,            \* "call" | "done"
    l_result,       \* what the call gave: [ok, asset, err]
    \* ---- GeminiEvaluator (pipeline/evaluators/gemini_evaluator.py)
    g_frames,       \* the frames argument of evaluate
    g_strategy,     \* self.sampling_strategy
    g_max_frames,   \* self.max_frames
    gpc,            \* "init" | "sampled" | "called" | "done" | "failed"
    g_selected,     \* evaluate: selected_frames
    g_sent,         \* _call_gemini: the frames of frame_images, in order
    g_response,     \* what generate_content gave, or NoResponse
    g_text,         \* evaluate: evaluation_text
    g_usage,        \* evaluate: whether usage_metadata is there
    g_result,       \* the dictionary evaluate returned, or NoGeminiResult
    g_error,        \* the exception that left evaluate, or NoGeminiExc
    g_ledger,       \* data/cost_log.jsonl: the entries, in file order
    \* ---- calculate_cost, called on its own
    k_arg,          \* the arguments: [model_name, input_tokens, output_tokens]
    k_pc,           \* "call" | "done"
    k_calc,         \* what the call gave: [ok, cost, err], the cost exact
    k_double,       \* the float the call returned
    \* ---- the cost ledger (log_evaluation_cost, get_total_cost)
    k_exists,       \* whether data/cost_log.jsonl exists
    k_lines,        \* its lines, in file order
    k_logged,       \* the number of log_evaluation_cost calls that returned
    k_out,          \* what get_total_cost returned, when it was the last call
    \* ---- the evaluations table (upsert_evaluation), callers side by side
    d_unique,       \* whether the table rejects a second row of a pair and version
    d_rows,         \* the rows of the table, in insertion order
    d_pc,           \* per caller: "start" | "insert" | "done" | "failed"
    d_pair,         \* per caller: the (video, rubric) pair of its evaluation
    d_next,         \* per caller: next_version
    \* ---- the cost ledger written by evaluations side by side
    a_exists,       \* whether data/cost_log.jsonl exists
    a_file,         \* its lines, in file order
    a_earlier,      \* the lines it had before the evaluations
    a_pc,           \* per writer: "start" | "open" | "closed"
    a_entry,        \* per writer: the entry it logs
    a_out           \* what get_total_cost returned, when it was the last call

retryVars == <<variant, max_retries, attempt, causes, rpc, raised, returned>>

sampleVars == <<s_frames, s_strategy, s_max, s_pc, s_result>>

ollamaVars == <<o_frames, o_strategy, o_max_frames, o_models, batch_size, opc, selected_frames,
                batches, partial_analyses, vision_log, synth_log, o_result, o_error,
                o_ledger>>

runVars == <<run, backend, rubric, runpc, failed_at, clock, ledger, files, saves>>

claudeVars == <<c_requested, c_max_frames, c_strategy, c_frames, cpc, c_selected,
                c_prompt, c_process, c_text, c_result, c_error, c_ledger>>

loadVars == <<l_video_dir, l_metadata, l_transcript_txt, l_transcript_json,
              l_frames_dir, l_entries, lpc, l_result>>

geminiVars == <<g_frames, g_strategy, g_max_frames, gpc, g_selected, g_sent,
                g_response, g_text, g_usage, g_result, g_error, g_ledger>>

calcVars == <<k_arg, k_pc, k_calc, k_double>>

ledgerVars == <<k_exists, k_lines, k_logged, k_out>>

dbVars == <<d_unique, d_rows, d_pc, d_pair, d_next>>

appendVars == <<a_exists, a_file, a_earlier, a_pc, a_entry, a_out>>

vars == <<retryVars, sampleVars, ollamaVars, runVars, claudeVars, loadVars,
    geminiVars, calcVars, ledgerVars, dbVars, appendVars>>

\* What an action of one part leaves alone: the variables of the other parts.
notRetry == <<sampleVars, ollamaVars, runVars, claudeVars, loadVars,
    geminiVars, calcVars, ledgerVars, dbVars, appendVars>>
notSample == <<retryVars, ollamaVars, runVars, claudeVars, loadVars,
    geminiVars, calcVars, ledgerVars, dbVars, appendVars>>
notOllama == <<retryVars, sampleVars, runVars, claudeVars, loadVars,
    geminiVars, calcVars, ledgerVars, dbVars, appendVars>>
notRun == <<retryVars, sampleVars, ollamaVars, claudeVars, loadVars,
    geminiVars, calcVars, ledgerVars, dbVars, appendVars>>
notClaude == <<retryVars, sampleVars, ollamaVars, runVars, loadVars,
    geminiVars, calcVars, ledgerVars, dbVars, appendVars>>
notLoad == <<retryVars, sampleVars, ollamaVars, runVars, claudeVars,
    geminiVars, calcVars, ledgerVars, dbVars, appendVars>>
notGemini == <<retryVars, sampleVars, ollamaVars, runVars, claudeVars,
    loadVars, calcVars, ledgerVars, dbVars, appendVars>>
notCalc == <<retryVars, sampleVars, ollamaVars, runVars, claudeVars,
    loadVars, geminiVars, ledgerVars, dbVars, appendVars>>
notLedger == <<retryVars, sampleVars, ollamaVars, runVars, claudeVars,
    loadVars, geminiVars, calcVars, dbVars, appendVars>>
notDb == <<retryVars, sampleVars, ollamaVars, runVars, claudeVars, loadVars,
    geminiVars, calcVars, ledgerVars, appendVars>>
notAppend == <<retryVars, sampleVars, ollamaVars, runVars, claudeVars,
    loadVars, geminiVars, calcVars, ledgerVars, dbVars>>

None == "None"
NoExc == [class |-> "none", msg |-> "none"]

(***************************************************************************)
(* Bounds of the model.                                                    *)
(***************************************************************************)
MaxRetries == 2
MaxFrames == 5
MaxBatch == 3
MaxRuns == 2
MaxClock == 1
MaxStdout == 2
MaxEntries == 2
MaxTokens == 1
MaxLogged == 3
MaxCallers == 2
MaxWriters == 2

(***************************************************************************)
(*                        evaluate_with_retry                              *)
(***************************************************************************)

Variants == {"api", "cli"}

\* What can happen to the underlying call of one attempt.
\*   api: messages.create answers, or raises RateLimitError, APITimeoutError,
\*        another APIError, or something else; _encode_image (outside the try)
\*        raises OSError for an unreadable frame.
\*   cli: subprocess.run exits 0 with a text on standard output, exits 0 with
\*        nothing but whitespace on it, exits non-zero (a rate-limited tool
\*        does that), exceeds the timeout, or raises something else.
Causes(v) ==
    IF v = "api"
    THEN {"ok", "rate_limit", "timeout", "api_error", "other", "encode_error"}
    ELSE {"ok", "empty_stdout", "rate_limit", "timeout", "nonzero_exit", "other"}

\* The failure classes the spec calls transient.
Transient == {"rate_limit", "timeout"}

Exc(c, m) == [class |-> c, msg |-> m]

\* evaluate_video: the result of one attempt as evaluate_with_retry sees it.
\* Every exception raised inside the try block leaves as a RuntimeError; the
\* cli variant returns result.stdout.strip() whatever it is.
EvaluateVideo(v, cause) ==
    IF cause = "ok" THEN [ok |-> TRUE, text |-> "evaluation", exc |-> NoExc]
    ELSE IF cause = "empty_stdout" THEN [ok |-> TRUE, text |-> "", exc |-> NoExc]
    ELSE [ok |-> FALSE, text |-> None, exc |->
        IF v = "api"
        THEN CASE cause = "encode_error" -> Exc("OSError", "cannot read frame")
               [] cause \in {"rate_limit", "timeout", "api_error"}
                                         -> Exc("RuntimeError", "Claude API error")
               [] OTHER -> Exc("RuntimeError", "Unexpected error calling Claude API")
        ELSE CASE cause = "timeout"
                    -> Exc("RuntimeError", "Claude evaluation timed out after 10 minutes")
               [] OTHER -> Exc("RuntimeError", "Unexpected error calling Claude")]

\* The exception class of the first except clause of evaluate_with_retry.
TransientClass(v) == IF v = "api" THEN "RateLimitError" ELSE "TimeoutExpired"

\* The error raised by the first except clause on the last attempt.
ExhaustedError(v) ==
    IF v = "api"
    THEN Exc("RuntimeError", "Claude API rate limit exceeded after all retries")
    ELSE Exc("RuntimeError", "Claude evaluation timed out after all retries")

ShouldRetryOffByOne(att, mr) == att <= mr

\* `if attempt < max_retries` of both except clauses.
ShouldRetry(att, mr) == att < mr

HandleFailureNoRetryOfOthers(v, exc, att, mr) ==
    IF exc.class = TransientClass(v)
    THEN IF ShouldRetry(att, mr) THEN NoExc ELSE ExhaustedError(v)
    ELSE exc

\* The except clauses: NoExc when the loop goes on, else the exception raised.
HandleFailure(v, exc, att, mr) ==
    IF exc.class = TransientClass(v)
    THEN IF ShouldRetry(att, mr) THEN NoExc ELSE ExhaustedError(v)
    ELSE IF ShouldRetry(att, mr) THEN NoExc ELSE exc

RetryStart ==
    /\ variant \in Variants
    /\ max_retries \in -1 .. MaxRetries
    /\ attempt = 0
    /\ causes = <<>>
    /\ rpc = "loop"
    /\ raised = NoExc
    /\ returned = None

\* One iteration of the loop: the call of evaluate_video and what follows it.
RetryAttempt ==
    /\ rpc = "loop"
    /\ attempt <= max_retries
    /\ \E cause \in Causes(variant) :
         LET r == EvaluateVideo(variant, cause)
             h == HandleFailure(variant, r.exc, attempt, max_retries)
         IN  /\ causes' = Append(causes, cause)
             /\ IF r.ok
                THEN /\ rpc' = "returned"
                     /\ returned' = r.text
                     /\ UNCHANGED <<attempt, raised>>
                ELSE IF h = NoExc
                THEN /\ attempt' = attempt + 1
                     /\ UNCHANGED <<rpc, raised, returned>>
                ELSE /\ rpc' = "raised"
                     /\ raised' = h
                     /\ UNCHANGED <<attempt, returned>>
    /\ UNCHANGED <<variant, max_retries>>
    /\ UNCHANGED notRetry

\* range(max_retries + 1) is used up without a return or a raise: the
\* function ends and Python returns None.
RetryFallOff ==
    /\ rpc = "loop"
    /\ attempt > max_retries
    /\ rpc' = "returned"
    /\ returned' = None
    /\ UNCHANGED <<variant, max_retries, attempt, causes, raised>>
    /\ UNCHANGED notRetry

(***************************************************************************)
(*                     VideoEvaluator.sample_frames                        *)
(***************************************************************************)

Strategies == {"even", "all", "first_n", "last_n"}

\* The strategy tokens a caller can pass: the four known ones and one other.
StrategyTokens == Strategies \cup {"random"}

Min(a, b) == IF a < b THEN a ELSE b
Max(a, b) == IF a > b THEN a ELSE b

\* A list of n frame paths as load_video_data gives it: sorted, distinct.
FrameList(n) == [i \in 1 .. n |-> i]

\* Python's index normalisation of a slice bound i for a list of length n.
SliceBound(i, n) == IF i < 0 THEN Max(n + i, 0) ELSE Min(i, n)

\* Python's s[a:b] (0-based, half-open, negative bounds counted from the end).
Slice(s, a, b) ==
    LET lo == SliceBound(a, Len(s))
        hi == SliceBound(b, Len(s))
    IN  IF hi <= lo THEN <<>> ELSE SubSeq(s, lo + 1, hi)

\* Python's s[a:].
SliceFrom(s, a) == Slice(s, a, Len(s))

\* int(i * step) with step = n / m, for m > 0. The double product equals the
\* exact floor for every n below 30 (the first difference is n = 30, m = 22,
\* i = 11), which covers the bounds of this model.
EvenIndex(i, n, m) == (i * n) \div m

SampleOk(fs) == [ok |-> TRUE, frames |-> fs, err |-> None]
SampleErr(e) == [ok |-> FALSE, frames |-> <<>>, err |-> e]

\* The strategy branches of sample_frames, reached when the list is longer
\* than max_frames.
SampleByStrategy(all_frames, sampling_strategy, max_frames) ==
    LET n == Len(all_frames)
    IN  CASE sampling_strategy = "even" ->
                 IF max_frames = 0 THEN SampleErr("ZeroDivisionError")
                 ELSE IF max_frames < 0 THEN SampleOk(<<>>)
                 ELSE SampleOk([i \in 1 .. max_frames |->
                                   all_frames[EvenIndex(i - 1, n, max_frames) + 1]])
          [] sampling_strategy = "first_n" -> SampleOk(Slice(all_frames, 0, max_frames))
          [] sampling_strategy = "last_n" ->
                 SampleOk(IF max_frames = 0 THEN all_frames
                          ELSE SliceFrom(all_frames, -max_frames))
          [] sampling_strategy = "all" -> SampleOk(all_frames)
          [] OTHER -> SampleErr("ValueError")

SampleFramesNoEarlyReturn(all_frames, sampling_strategy, max_frames) ==
    IF Len(all_frames) = 0
    THEN SampleOk(all_frames)
    ELSE SampleByStrategy(all_frames, sampling_strategy, max_frames)

\* sample_frames.
SampleFrames(all_frames, sampling_strategy, max_frames) ==
    IF Len(all_frames) <= max_frames
    THEN SampleOk(all_frames)
    ELSE SampleByStrategy(all_frames, sampling_strategy, max_frames)

SampleStart ==
    /\ s_frames \in {FrameList(n) : n \in 0 .. MaxFrames}
    /\ s_strategy \in StrategyTokens
    /\ s_max \in -1 .. MaxFrames + 1
    /\ s_pc = "call"
    /\ s_result = None

SampleCall ==
    /\ s_pc = "call"
    /\ s_result' = SampleFrames(s_frames, s_strategy, s_max)
    /\ s_pc' = "done"
    /\ UNCHANGED <<s_frames, s_strategy, s_max>>
    /\ UNCHANGED notSample

(***************************************************************************)
(*              OllamaEvaluator: batch, then synthesize                    *)
(***************************************************************************)

\* evaluate has returned nothing (yet).
NoResult == [evaluation_markdown |-> None]

\* The evaluator has no models (there is no evaluator).
NoModels == [vision_model |-> None, synthesis_model |-> None]

\* The models of the evaluator: the defaults of the constructor, or a choice
\* of the two selectboxes.
OllamaModels ==
    {[vision_model |-> "llava:34b", synthesis_model |-> "llama3.1:8b-instruct"],
     [vision_model |-> "llava:13b", synthesis_model |-> "llama3.2:3b"]}

\* evaluate has raised nothing.
NoOllamaError == [at |-> "none", e |-> "none"]

\* What the vision model answers for a batch: opaque text, told apart by the
\* call it answers.
VisionText(batch_num, frame_paths) ==
    [kind |-> "analysis", batch |-> batch_num, of |-> frame_paths]

\* f"[Batch analysis failed: {e}]"
FailurePlaceholder(e) == [kind |-> "[Batch analysis failed: e]", e |-> e]

VisionErrors == {"ResponseError"}

CeilDiv(n, b) == (n + b - 1) \div b

RECURSIVE BatchesFrom(_, _, _)
\* The loop of _create_batches from index i on: frames[i:i + batch_size] for
\* i in range(i, len(frames), batch_size).
BatchesFrom(frames, i, size) ==
    IF i >= Len(frames) THEN <<>>
    ELSE <<Slice(frames, i, i + size)>> \o BatchesFrom(frames, i + size, size)

CreateBatchesDropsShortBatch(frames, size) ==
    LET all == BatchesFrom(frames, 0, size)
    IN  IF all # <<>> /\ Len(all[Len(all)]) < size
        THEN SubSeq(all, 1, Len(all) - 1) ELSE all

\* _create_batches.
CreateBatches(frames, size) == BatchesFrom(frames, 0, size)

RECURSIVE Flatten(_)
Flatten(bs) == IF bs = <<>> THEN <<>> ELSE Head(bs) \o Flatten(Tail(bs))

IsAnalysis(entry) == entry.analysis.kind = "analysis"

BuildSynthesisPromptSkipsFailed(pa) ==
    LET good == SelectSeq(pa, IsAnalysis)
    IN  [total_frames |-> Len(Flatten([k \in 1 .. Len(pa) |-> pa[k].frames])),
         num_batches  |-> Len(pa),
         sections     |-> [k \in 1 .. Len(good) |->
                              [label |-> good[k].batch_num, body |-> good[k].analysis]],
         transcript   |-> "transcript",
         rubric       |-> "rubric_prompt"]

\* _build_synthesis_prompt: the parts of the prompt that vary, in their order
\* in the text.
BuildSynthesisPrompt(pa) ==
    [total_frames |-> Len(Flatten([k \in 1 .. Len(pa) |-> pa[k].frames])),
     num_batches  |-> Len(pa),
     sections     |-> [k \in 1 .. Len(pa) |->
                          [label |-> pa[k].batch_num, body |-> pa[k].analysis]],
     transcript   |-> "transcript",
     rubric       |-> "rubric_prompt"]

\* The evaluators of the program are configured by the evaluation page: a
\* strategy of the selectbox, max_frames >= 1, batch_size of a slider >= 4;
\* the frames are those load_video_data returns, at least one.
OllamaStart ==
    /\ o_frames \in {FrameList(n) : n \in 1 .. MaxFrames}
    /\ o_strategy \in Strategies
    /\ o_max_frames \in 1 .. MaxFrames + 1
    /\ o_models \in OllamaModels
    /\ batch_size \in 1 .. MaxBatch
    /\ opc = "init"
    /\ selected_frames = <<>>
    /\ batches = <<>>
    /\ partial_analyses = <<>>
    /\ vision_log = <<>>
    /\ synth_log = <<>>
    /\ o_result = NoResult
    /\ o_error = NoOllamaError
    /\ o_ledger = <<>>

\* evaluate: the call of sample_frames. No statement of evaluate or of the
\* methods it calls writes the cost ledger, so every step leaves o_ledger.
OllamaSample ==
    /\ opc = "init"
    /\ LET r == SampleFrames(o_frames, o_strategy, o_max_frames)
       IN  IF r.ok
           THEN /\ selected_frames' = r.frames
                /\ opc' = "sampled"
                /\ UNCHANGED o_error
           ELSE /\ opc' = "failed"
                /\ o_error' = [at |-> "sample_frames", e |-> r.err]
                /\ UNCHANGED selected_frames
    /\ UNCHANGED <<o_frames, o_strategy, o_max_frames, o_models, batch_size, batches,
                   partial_analyses, vision_log, synth_log, o_result, o_ledger>>
    /\ UNCHANGED notOllama

\* _analyze_batches: batches = self._create_batches(frames).
OllamaCreateBatches ==
    /\ opc = "sampled"
    /\ batches' = CreateBatches(selected_frames, batch_size)
    /\ opc' = "batch_loop"
    /\ UNCHANGED <<o_frames, o_strategy, o_max_frames, o_models, batch_size, selected_frames,
                   partial_analyses, vision_log, synth_log, o_result, o_error,
                   o_ledger>>
    /\ UNCHANGED notOllama

\* The entry _analyze_batches appends for batch i, given the outcome of
\* _analyze_single_batch.
BatchEntry(i, batch, ok, e) ==
    [batch_num |-> i, frames |-> batch,
     analysis |-> IF ok THEN VisionText(i, batch) ELSE FailurePlaceholder(e)]

AnalyzeBatchAbortsOnFailure(i, ok, e) ==
    IF ok
    THEN /\ partial_analyses' = Append(partial_analyses, BatchEntry(i, batches[i], ok, e))
         /\ UNCHANGED <<opc, o_error>>
    ELSE /\ opc' = "failed"
         /\ o_error' = [at |-> "_analyze_batches", e |-> e]
         /\ UNCHANGED partial_analyses

\* The try/except of the loop body of _analyze_batches.
AnalyzeBatchBody(i, ok, e) ==
    /\ partial_analyses' = Append(partial_analyses, BatchEntry(i, batches[i], ok, e))
    /\ UNCHANGED <<opc, o_error>>

\* One iteration of the loop of _analyze_batches: batch i is sent to the
\* vision model, which answers or fails.
OllamaAnalyzeBatch ==
    /\ opc = "batch_loop"
    /\ Len(partial_analyses) < Len(batches)
    /\ LET i == Len(partial_analyses) + 1
       IN  \E ok \in BOOLEAN : \E e \in VisionErrors :
             /\ vision_log' = Append(vision_log,
                    [batch_num |-> i, total_batches |-> Len(batches),
                     images |-> batches[i], ok |-> ok, e |-> e])
             /\ AnalyzeBatchBody(i, ok, e)
    /\ UNCHANGED <<o_frames, o_strategy, o_max_frames, o_models, batch_size, selected_frames,
                   batches, synth_log, o_result, o_ledger>>
    /\ UNCHANGED notOllama

OllamaResultCountsAnalysedBatches(final_evaluation) ==
    LET analysed == Len(SelectSeq(partial_analyses, IsAnalysis))
    IN  [evaluation_markdown |-> final_evaluation,
         frames_analyzed |-> Len(selected_frames),
         total_frames_available |-> Len(o_frames),
         sampling_strategy |-> o_strategy,
         batch_size |-> batch_size,
         num_batches |-> analysed,
         vision_model |-> o_models.vision_model,
         synthesis_model |-> o_models.synthesis_model,
         frames_processed |-> Len(selected_frames),
         batches_processed |-> analysed]

\* The result dictionary of evaluate (the fields that depend on the run).
OllamaResult(final_evaluation) ==
    [evaluation_markdown |-> final_evaluation,
     frames_analyzed |-> Len(selected_frames),
     total_frames_available |-> Len(o_frames),
     sampling_strategy |-> o_strategy,
     batch_size |-> batch_size,
     num_batches |-> Len(partial_analyses),
     vision_model |-> o_models.vision_model,
     synthesis_model |-> o_models.synthesis_model,
     frames_processed |-> Len(selected_frames),
     batches_processed |-> Len(partial_analyses)]

\* What the synthesis model can answer: a text of its own, which may quote
\* the placeholder of a failed batch or not. markers are the batches whose
\* placeholder the text shows.
SynthesisAnswers(analyses) ==
    {[kind |-> "report", markers |-> m] :
        m \in SUBSET {k \in 1 .. Len(analyses) : ~IsAnalysis(analyses[k])}}

PartialAnalysesText == [kind |-> "partial analyses", markers |-> {}]

SynthesisFailureFallsBack(ok, answer) ==
    /\ opc' = "done"
    /\ o_result' = OllamaResult(IF ok THEN answer ELSE PartialAnalysesText)
    /\ UNCHANGED o_error

\* evaluate after the call of the synthesis model: the result is built from
\* its answer (return response['message']['content']), and its failure
\* leaves evaluate (the except clause re-raises).
AfterSynthesis(ok, answer) ==
    IF ok
    THEN /\ opc' = "done"
         /\ o_result' = OllamaResult(answer)
         /\ UNCHANGED o_error
    ELSE /\ opc' = "failed"
         /\ o_error' = [at |-> "_synthesize_evaluation", e |-> "ResponseError"]
         /\ UNCHANGED o_result

\* _analyze_batches has returned; _synthesize_evaluation builds the prompt
\* and calls the synthesis model, which answers or fails.
OllamaSynthesize ==
    /\ opc = "batch_loop"
    /\ Len(partial_analyses) = Len(batches)
    /\ \E ok \in BOOLEAN : \E answer \in SynthesisAnswers(partial_analyses) :
         /\ synth_log' = Append(synth_log,
                [prompt |-> BuildSynthesisPrompt(partial_analyses), ok |-> ok])
         /\ AfterSynthesis(ok, answer)
    /\ UNCHANGED <<o_frames, o_strategy, o_max_frames, o_models, batch_size, selected_frames,
                   batches, partial_analyses, vision_log, o_ledger>>
    /\ UNCHANGED notOllama

(***************************************************************************)
(*   One evaluation run after another: load_video_data, evaluate,          *)
(*   save_evaluation (pipeline/evaluate_video.py main), with the cost      *)
(*   ledger and the artifact files of one video.                           *)
(***************************************************************************)

\* --evaluator
Backends == {"claude", "gemini"}

\* evaluator_name of the backend.
EvaluatorName(b) == IF b = "claude" THEN "claude-cli" ELSE "gemini-flash"

\* The default --model of the backend.
ModelName(b) ==
    IF b = "claude" THEN "claude-sonnet-4-20250514" ELSE "models/gemini-2.5-flash"

\* Two of the --rubric choices.
Rubrics == {"academic", "four_pillars"}

\* save_evaluation: <evaluator>_<rubric>_<timestamp>.json, the timestamp
\* being the clock read to the second.
FileName(b, r, t) == <<EvaluatorName(b), r, t>>

\* open(filepath, 'w') and json.dump: the file of that name is replaced.
WriteFile(fs, name, r, complete) ==
    {f \in fs : f.name # name} \cup {[name |-> name, run |-> r, complete |-> complete]}

\* The line log_evaluation_cost appends for the run.
LedgerEntry(b, r, n) ==
    [model |-> ModelName(b), video_id |-> "video", rubric |-> r, run |-> n]

\* What can happen in evaluate once the frames are sampled: the call of the
\* backend fails; it answers and the cost is logged; it answers without
\* usage metadata (gemini only: nothing is logged); it answers and
\* log_evaluation_cost fails to open the ledger.
InvokeOutcomes(b) ==
    {"call_failed", "ok", "log_failed"} \cup
        (IF b = "gemini" THEN {"ok_no_usage"} ELSE {})

LedgerLoggedBeforeCall(led, outcome, entry) ==
    IF outcome \in {"ok", "call_failed"} THEN Append(led, entry) ELSE led

\* The ledger after evaluate: log_evaluation_cost runs after the call of the
\* backend has returned.
LedgerAfterEvaluate(led, outcome, entry) ==
    IF outcome = "ok" THEN Append(led, entry) ELSE led

RunStart ==
    /\ run = 1
    /\ backend \in Backends
    /\ rubric \in Rubrics
    /\ runpc = "start"
    /\ failed_at = None
    /\ clock = 0
    /\ ledger = <<>>
    /\ files = {}
    /\ saves = 0

Fail(at) ==
    /\ runpc' = "failed"
    /\ failed_at' = at

\* load_video_data: returns the asset or raises FileNotFoundError.
RunLoad ==
    /\ runpc = "start"
    /\ \E ok \in BOOLEAN :
         IF ok THEN runpc' = "loaded" /\ UNCHANGED failed_at
         ELSE Fail("load_video_data")
    /\ UNCHANGED <<run, backend, rubric, clock, ledger, files, saves>>
    /\ UNCHANGED notRun

\* evaluate: sample_frames returns the frames or raises (an unknown
\* strategy, max_frames = 0 with even).
RunSample ==
    /\ runpc = "loaded"
    /\ \E ok \in BOOLEAN :
         IF ok THEN runpc' = "sampled" /\ UNCHANGED failed_at
         ELSE Fail("sample_frames")
    /\ UNCHANGED <<run, backend, rubric, clock, ledger, files, saves>>
    /\ UNCHANGED notRun

\* evaluate: the call of the backend, the cost log, the result.
RunInvoke ==
    /\ runpc = "sampled"
    /\ \E outcome \in InvokeOutcomes(backend) :
         /\ ledger' = LedgerAfterEvaluate(ledger, outcome,
                                          LedgerEntry(backend, rubric, run))
         /\ IF outcome \in {"ok", "ok_no_usage"}
            THEN runpc' = "evaluated" /\ UNCHANGED failed_at
            ELSE Fail("evaluate")
    /\ UNCHANGED <<run, backend, rubric, clock, files, saves>>
    /\ UNCHANGED notRun

\* save_evaluation: mkdir or open fails and nothing is written; json.dump
\* fails after open has created (or emptied) the file; or the file is
\* written.
RunSave ==
    /\ runpc = "evaluated"
    /\ \E outcome \in {"ok", "open_failed", "write_failed"} :
         LET name == FileName(backend, rubric, clock)
         IN  CASE outcome = "ok" ->
                    /\ files' = WriteFile(files, name, run, TRUE)
                    /\ saves' = saves + 1
                    /\ runpc' = "saved"
                    /\ UNCHANGED failed_at
               [] outcome = "write_failed" ->
                    /\ files' = WriteFile(files, name, run, FALSE)
                    /\ Fail("save_evaluation")
                    /\ UNCHANGED saves
               [] OTHER ->
                    /\ Fail("save_evaluation")
                    /\ UNCHANGED <<files, saves>>
    /\ UNCHANGED <<run, backend, rubric, clock, ledger>>
    /\ UNCHANGED notRun

\* The program is run again, on the same video.
RunAgain ==
    /\ runpc \in {"saved", "failed"}
    /\ run < MaxRuns
    /\ run' = run + 1
    /\ backend' \in Backends
    /\ rubric' \in Rubrics
    /\ runpc' = "start"
    /\ failed_at' = None
    /\ UNCHANGED <<clock, ledger, files, saves>>
    /\ UNCHANGED notRun

\* The clock of datetime.now() reaches the next second.
Tick ==
    /\ runpc # "idle"
    /\ clock < MaxClock
    /\ clock' = clock + 1
    /\ UNCHANGED <<run, backend, rubric, runpc, failed_at, ledger, files, saves>>
    /\ UNCHANGED notRun

(***************************************************************************)
(*   The cost ledger: calculate_cost, log_evaluation_cost, get_total_cost  *)
(*   (pipeline/cost_tracker.py)                                            *)
(***************************************************************************)

\* A model identifier is a sequence of characters, so that `in` between two
\* of them is the substring test. The keys of PRICING:
\* "claude-sonnet-4-20250514"
KeySonnet4 ==
    <<"c", "l", "a", "u", "d", "e", "-", "s", "o", "n", "n", "e", "t", "-",
      "4", "-", "2", "0", "2", "5", "0", "5", "1", "4">>
\* "claude-opus-4-5-20251101"
KeyOpus45 ==
    <<"c", "l", "a", "u", "d", "e", "-", "o", "p", "u", "s", "-", "4", "-",
      "5", "-", "2", "0", "2", "5", "1", "1", "0", "1">>
\* "claude-3-5-sonnet-20241022"
KeySonnet35 ==
    <<"c", "l", "a", "u", "d", "e", "-", "3", "-", "5", "-", "s", "o", "n",
      "n", "e", "t", "-", "2", "0", "2", "4", "1", "0", "2", "2">>
\* "claude-3-haiku-20240307"
KeyHaiku3 ==
    <<"c", "l", "a", "u", "d", "e", "-", "3", "-", "h", "a", "i", "k", "u",
      "-", "2", "0", "2", "4", "0", "3", "0", "7">>
\* "models/gemini-2.5-flash"
KeyGeminiFlash ==
    <<"m", "o", "d", "e", "l", "s", "/", "g", "e", "m", "i", "n", "i", "-",
      "2", ".", "5", "-", "f", "l", "a", "s", "h">>
\* "models/gemini-2.5-pro"
KeyGeminiPro ==
    <<"m", "o", "d", "e", "l", "s", "/", "g", "e", "m", "i", "n", "i", "-",
      "2", ".", "5", "-", "p", "r", "o">>
\* "ollama"
KeyOllama ==
    <<"o", "l", "l", "a", "m", "a">>

\* Other identifiers a backend can be configured with:
\* "gemini"
NameGemini ==
    <<"g", "e", "m", "i", "n", "i">>
\* "ollama/llava:13b"
NameOllamaLlava ==
    <<"o", "l", "l", "a", "m", "a", "/", "l", "l", "a", "v", "a", ":", "1",
      "3", "b">>
\* "models/gemini-flash-latest", a choice of pages/3_Video_Evaluation.py
NameGeminiLatest ==
    <<"m", "o", "d", "e", "l", "s", "/", "g", "e", "m", "i", "n", "i", "-",
      "f", "l", "a", "s", "h", "-", "l", "a", "t", "e", "s", "t">>
\* "llava:13b"
NameLlava ==
    <<"l", "l", "a", "v", "a", ":", "1", "3", "b">>

\* ---------------------------------------------------------------------------
\* The double arithmetic of calculate_cost (Python float: IEEE 754 binary64,
\* round to nearest, ties to even). A natural number is the sequence of its
\* digits to the base 2^LimbBits, the lowest first, without leading zeros (0
\* is <<>>); a double is sign, mantissa m of Precision binary digits and
\* exponent e, its value m * 2^e. The amounts of the model are far from
\* overflow and from subnormal numbers.
\* ---------------------------------------------------------------------------
Precision == 53
LimbBits == 10
Base == 2 ^ LimbBits

RECURSIVE LimbsOf(_)
LimbsOf(n) == IF n = 0 THEN <<>> ELSE <<n % Base>> \o LimbsOf(n \div Base)

\* Base * b + d
Push(d, b) == IF b = <<>> /\ d = 0 THEN <<>> ELSE <<d>> \o b

RECURSIVE Trim(_)
Trim(b) ==
    IF b = <<>> \/ b[Len(b)] # 0 THEN b ELSE Trim(SubSeq(b, 1, Len(b) - 1))

RECURSIVE GeqFrom(_, _, _)
GeqFrom(a, b, k) ==
    IF k = 0 THEN TRUE
    ELSE IF a[k] # b[k] THEN a[k] > b[k]
    ELSE GeqFrom(a, b, k - 1)

Geq(a, b) == Len(a) > Len(b) \/ (Len(a) = Len(b) /\ GeqFrom(a, b, Len(a)))

RECURSIVE AddCarry(_, _, _)
AddCarry(a, b, c) ==
    IF a = <<>> /\ b = <<>> THEN LimbsOf(c)
    ELSE LET x == IF a = <<>> THEN 0 ELSE a[1]
             y == IF b = <<>> THEN 0 ELSE b[1]
             s == x + y + c
         IN  <<s % Base>> \o AddCarry(IF a = <<>> THEN a ELSE Tail(a),
                                      IF b = <<>> THEN b ELSE Tail(b), s \div Base)

LimbsAdd(a, b) == AddCarry(a, b, 0)

RECURSIVE SubBorrow(_, _, _)
SubBorrow(a, b, c) ==
    IF a = <<>> THEN <<>>
    ELSE LET y == IF b = <<>> THEN 0 ELSE b[1]
             s == a[1] - y - c
         IN  <<s % Base>> \o SubBorrow(Tail(a), IF b = <<>> THEN b ELSE Tail(b),
                                       IF s < 0 THEN 1 ELSE 0)

\* a - b for a >= b
LimbsSub(a, b) == Trim(SubBorrow(a, b, 0))

\* a * x + c for a digit x
RECURSIVE MulDigit(_, _, _)
MulDigit(a, x, c) ==
    IF a = <<>> THEN LimbsOf(c)
    ELSE LET s == a[1] * x + c
         IN  <<s % Base>> \o MulDigit(Tail(a), x, s \div Base)

RECURSIVE LimbsMul(_, _)
LimbsMul(a, b) ==
    IF b = <<>> THEN <<>>
    ELSE LimbsAdd(Trim(MulDigit(a, b[1], 0)), Push(0, LimbsMul(a, Tail(b))))

\* Quotient and remainder of the digits k .. Len(n) of n by d, 0 < d < 2^20.
RECURSIVE DivMod(_, _, _)
DivMod(n, d, k) ==
    IF k > Len(n) THEN [q |-> <<>>, r |-> 0]
    ELSE LET p == DivMod(n, d, k + 1)
             r == p.r * Base + n[k]
         IN  [q |-> Push(r \div d, p.q), r |-> r % d]

\* The number of binary digits of n.
RECURSIVE BitLength(_)
BitLength(n) == IF n = 0 THEN 0 ELSE 1 + BitLength(n \div 2)

LimbsBitLength(a) ==
    IF a = <<>> THEN 0 ELSE LimbBits * (Len(a) - 1) + BitLength(a[Len(a)])

\* a * 2^t
ShiftLeft(a, t) ==
    IF a = <<>> THEN a
    ELSE [j \in 1 .. t \div LimbBits |-> 0] \o Trim(MulDigit(a, 2 ^ (t % LimbBits), 0))

\* a \div 2^t, and whether a digit that was dropped is not 0
ShiftRight(a, t) ==
    LET whole == t \div LimbBits
        qr == DivMod(SubSeq(a, whole + 1, Len(a)), 2 ^ (t % LimbBits), 1)
    IN  [q |-> qr.q,
         sticky |-> qr.r # 0 \/ \E j \in 1 .. whole : j <= Len(a) /\ a[j] # 0]

DZero == [neg |-> FALSE, m |-> <<>>, e |-> 0]

\* The double nearest to a * 2^e, a tie going to the even mantissa.
RoundToDouble(neg, a, e) ==
    LET s == LimbsBitLength(a) - Precision
    IN  IF a = <<>> THEN DZero
        ELSE IF s <= 0 THEN [neg |-> neg, m |-> ShiftLeft(a, 0 - s), e |-> e + s]
        ELSE LET low == ShiftRight(a, s - 1)
                 kept == ShiftRight(low.q, 1)
                 up == kept.sticky /\ (low.sticky \/ kept.q[1] % 2 = 1)
                 m == IF up THEN LimbsAdd(kept.q, <<1>>) ELSE kept.q
             IN  IF LimbsBitLength(m) > Precision
                 THEN [neg |-> neg, m |-> ShiftRight(m, 1).q, e |-> e + s + 1]
                 ELSE [neg |-> neg, m |-> m, e |-> e + s]

\* n / d of two int objects (n >= 0, 0 < d < 2^20): the quotient correctly
\* rounded. The quotient is taken with more than Precision + 2 binary digits
\* and a remainder enters as one digit below them.
TrueDivide(n, d) ==
    LET k == 8 * LimbBits
        qr == DivMod(ShiftLeft(LimbsOf(n), k), d, 1)
    IN  RoundToDouble(FALSE, LimbsAdd(ShiftLeft(qr.q, 1), LimbsOf(IF qr.r = 0 THEN 0 ELSE 1)),
                      0 - k - 1)

\* x * y of two floats that are not negative
DMul(x, y) == RoundToDouble(FALSE, LimbsMul(x.m, y.m), x.e + y.e)

\* x + y of two floats that are not negative
DAdd(x, y) ==
    LET e == IF x.e < y.e THEN x.e ELSE y.e
    IN  RoundToDouble(FALSE, LimbsAdd(ShiftLeft(x.m, x.e - e), ShiftLeft(y.m, y.e - e)), e)

\* x - y of two floats that are not negative
DSub(x, y) ==
    LET e == IF x.e < y.e THEN x.e ELSE y.e
        a == ShiftLeft(x.m, x.e - e)
        b == ShiftLeft(y.m, y.e - e)
    IN  IF Geq(a, b) THEN RoundToDouble(FALSE, LimbsSub(a, b), e)
        ELSE RoundToDouble(TRUE, LimbsSub(b, a), e)

\* 2 * x
DTwice(x) == IF x.m = <<>> THEN x ELSE [x EXCEPT !.e = @ + 1]

\* An identifier, or none at all (model_name = None).
Id(chars) == [absent |-> FALSE, chars |-> chars]
AbsentId == [absent |-> TRUE, chars |-> <<>>]

\* Money is counted in 10^-9 dollars, the price of one token of the cheapest
\* model being 75 of them; a ledger line holds 10^-4 dollars.
NanoPerUnit == 100000

\* PRICING, in the order of the dictionary: the price of one token.
PRICING ==
    <<[key |-> KeySonnet4, input |-> 3000, output |-> 15000],
      [key |-> KeyOpus45, input |-> 15000, output |-> 75000],
      [key |-> KeySonnet35, input |-> 3000, output |-> 15000],
      [key |-> KeyHaiku3, input |-> 250, output |-> 1250],
      [key |-> KeyGeminiFlash, input |-> 75, output |-> 300],
      [key |-> KeyGeminiPro, input |-> 1250, output |-> 5000],
      [key |-> KeyOllama, input |-> 0, output |-> 0]>>

PricingKeys == {PRICING[k].key : k \in 1 .. Len(PRICING)}

\* `a in b` of two strings.
IsSubstring(a, b) ==
    \E i \in 0 .. Len(b) - Len(a) : SubSeq(b, i + 1, i + Len(a)) = a

\* The positions of the keys the loop of calculate_cost would stop at.
MatchingKeys(chars) ==
    {k \in 1 .. Len(PRICING) :
        IsSubstring(PRICING[k].key, chars) \/ IsSubstring(chars, PRICING[k].key)}

CalcOk(c) == [ok |-> TRUE, cost |-> c, err |-> None]
CalcErr(e) == [ok |-> FALSE, cost |-> 0, err |-> e]

PriceOf(k, input_tokens, output_tokens) ==
    input_tokens * PRICING[k].input + output_tokens * PRICING[k].output

\* calculate_cost. With model_name = None, `key in model_name` raises
\* TypeError in the first turn of the loop.
CalculateCost(model_name, input_tokens, output_tokens) ==
    IF model_name.absent THEN CalcErr("TypeError")
    ELSE IF model_name.chars \in PricingKeys
    THEN CalcOk(PriceOf(CHOOSE k \in 1 .. Len(PRICING) :
                            PRICING[k].key = model_name.chars,
                        input_tokens, output_tokens))
    ELSE IF MatchingKeys(model_name.chars) # {}
    THEN CalcOk(PriceOf(CHOOSE k \in MatchingKeys(model_name.chars) :
                            \A j \in MatchingKeys(model_name.chars) : k <= j,
                        input_tokens, output_tokens))
    ELSE CalcOk(0)

\* A price of PRICING as the float its literal denotes (dollars per million
\* tokens): the double nearest to the decimal.
PriceDouble(nano) == TrueDivide(nano, 1000)

InputCostAddsPrice(k, input_tokens) ==
    DAdd(TrueDivide(input_tokens, 1000000), PriceDouble(PRICING[k].input))

\* input_cost = (input_tokens / 1_000_000) * pricing["input"]
InputCost(k, input_tokens) ==
    DMul(TrueDivide(input_tokens, 1000000), PriceDouble(PRICING[k].input))

\* output_cost = (output_tokens / 1_000_000) * pricing["output"]
OutputCost(k, output_tokens) ==
    DMul(TrueDivide(output_tokens, 1000000), PriceDouble(PRICING[k].output))

\* The entry of PRICING calculate_cost charges by, 0 when there is none.
KeyIndex(chars) ==
    IF chars \in PricingKeys
    THEN CHOOSE k \in 1 .. Len(PRICING) : PRICING[k].key = chars
    ELSE IF MatchingKeys(chars) # {}
    THEN CHOOSE k \in MatchingKeys(chars) : \A j \in MatchingKeys(chars) : k <= j
    ELSE 0

\* The float calculate_cost returns for an identifier that is a string:
\* input_cost + output_cost, or 0.0.
CalculateCostDouble(chars, input_tokens, output_tokens) ==
    IF KeyIndex(chars) = 0 THEN DZero
    ELSE DAdd(InputCost(KeyIndex(chars), input_tokens),
              OutputCost(KeyIndex(chars), output_tokens))

\* The token counts of the model: multiples of 1200 tokens. For these the
\* double arithmetic of calculate_cost followed by round(cost, 4) gives the
\* same 10^-4 dollars as Round4 below.
TokenCounts == {1200 * k : k \in 0 .. MaxTokens}

\* The identifiers calculate_cost is called with.
CalcIds ==
    {Id(c) : c \in PricingKeys \cup {NameGemini, NameOllamaLlava,
                                     NameGeminiLatest, NameLlava, <<>>}}
    \cup {AbsentId}

CalcStart ==
    /\ k_arg \in [model_name : CalcIds, input_tokens : TokenCounts,
                  output_tokens : TokenCounts]
    /\ k_pc = "call"
    /\ k_calc = CalcOk(0)
    /\ k_double = DZero

CalcCall ==
    /\ k_pc = "call"
    /\ k_calc' = CalculateCost(k_arg.model_name, k_arg.input_tokens,
                               k_arg.output_tokens)
    /\ k_double' = IF k_arg.model_name.absent THEN DZero
                   ELSE CalculateCostDouble(k_arg.model_name.chars,
                                            k_arg.input_tokens, k_arg.output_tokens)
    /\ k_pc' = "done"
    /\ UNCHANGED k_arg
    /\ UNCHANGED notCalc

\* round(x, 4) of an amount: to the nearest 10^-4 dollars, a tie to the even
\* neighbour.
Round4(nano) ==
    LET q == nano \div NanoPerUnit
        r == nano % NanoPerUnit
    IN  IF 2 * r > NanoPerUnit \/ (2 * r = NanoPerUnit /\ q % 2 = 1)
        THEN q + 1 ELSE q

\* The line log_evaluation_cost writes.
LogEntry(model, input_tokens, output_tokens, cost) ==
    [model |-> model, video_id |-> "video", rubric |-> "rubric",
     input_tokens |-> input_tokens, output_tokens |-> output_tokens,
     cost |-> Round4(cost)]

LogEvaluationCostOverwrites(lines, entry) == <<entry>>

\* log_evaluation_cost: open(log_file, "a") and one write.
LogEvaluationCost(lines, entry) == Append(lines, entry)

\* The models the evaluations run with: three of the price table and one
\* that is not in it.
LoggedModels == {KeySonnet4, KeyHaiku3, KeyGeminiFlash, NameGeminiLatest}

RECURSIVE SumCosts(_)
SumCosts(lines) ==
    IF lines = <<>> THEN 0
    ELSE lines[1].cost * NanoPerUnit + SumCosts(Tail(lines))

RECURSIVE ByModelOverwrites(_)
ByModelOverwrites(lines) ==
    IF lines = <<>> THEN [m \in {} |-> 0]
    ELSE LET last == lines[Len(lines)]
             before == ByModelOverwrites(SubSeq(lines, 1, Len(lines) - 1))
         IN  [m \in DOMAIN before \cup {last.model} |->
                 IF m = last.model THEN last.cost * NanoPerUnit ELSE before[m]]

\* by_model[model] = by_model.get(model, 0.0) + cost, line after line.
RECURSIVE ByModel(_)
ByModel(lines) ==
    IF lines = <<>> THEN [m \in {} |-> 0]
    ELSE LET last == lines[Len(lines)]
             before == ByModel(SubSeq(lines, 1, Len(lines) - 1))
             sofar == IF last.model \in DOMAIN before THEN before[last.model] ELSE 0
         IN  [m \in DOMAIN before \cup {last.model} |->
                 IF m = last.model THEN sofar + last.cost * NanoPerUnit
                 ELSE before[m]]

NoTotal == [called |-> FALSE, total |-> 0, by_model |-> [m \in {} |-> 0]]

\* get_total_cost.
GetTotalCost(exists, lines) ==
    IF ~exists THEN [called |-> TRUE, total |-> 0, by_model |-> [m \in {} |-> 0]]
    ELSE [called |-> TRUE,
          total |-> Round4(SumCosts(lines)),
          by_model |-> [m \in DOMAIN ByModel(lines) |-> Round4(ByModel(lines)[m])]]

\* No evaluation has run yet: there is no ledger file.
LedgerStart ==
    /\ k_exists = FALSE
    /\ k_lines = <<>>
    /\ k_logged = 0
    /\ k_out = NoTotal

\* An evaluation has its cost calculated and logs it.
LedgerLog ==
    /\ k_logged < MaxLogged
    /\ \E m \in LoggedModels, i \in TokenCounts \ {0}, o \in TokenCounts \ {0} :
         LET c == CalculateCost(Id(m), i, o)
         IN  k_lines' = LogEvaluationCost(k_lines, LogEntry(m, i, o, c.cost))
    /\ k_exists' = TRUE
    /\ k_logged' = k_logged + 1
    /\ k_out' = NoTotal
    /\ UNCHANGED notLedger

\* get_total_cost is called.
LedgerTotal ==
    /\ ~k_out.called
    /\ k_out' = GetTotalCost(k_exists, k_lines)
    /\ UNCHANGED <<k_exists, k_lines, k_logged>>
    /\ UNCHANGED notLedger

(***************************************************************************)
(*   ClaudeEvaluator: the constructor and evaluate                         *)
(*   (pipeline/evaluators/claude_evaluator.py)                             *)
(***************************************************************************)

\* "Claude API has a hard limit of 100 images per request".
FrameCap == 100

\* --max-frames takes any integer; the values around 0 and around the cap.
ClaudeRequests == (-1 .. MaxFrames) \cup (FrameCap - 1 .. FrameCap + 1)

\* The number of frames of the video: few, or about as many as the cap.
ClaudeFrameCounts == (0 .. MaxFrames) \cup (FrameCap - 1 .. FrameCap + 1)

\* self.max_frames = min(max_frames, 100)
CappedMaxFrames(max_frames) == Min(max_frames, FrameCap)

\* Text is a sequence of characters.
Whitespace == {" ", "\n"}
StdoutChars == Whitespace \cup {"a"}
Stdouts == UNION {[1 .. n -> StdoutChars] : n \in 0 .. MaxStdout}

RECURSIVE LStrip(_)
LStrip(s) == IF s # <<>> /\ Head(s) \in Whitespace THEN LStrip(Tail(s)) ELSE s

RECURSIVE RStrip(_)
RStrip(s) ==
    IF s # <<>> /\ s[Len(s)] \in Whitespace
    THEN RStrip(SubSeq(s, 1, Len(s) - 1))
    ELSE s

\* str.strip()
Strip(s) == RStrip(LStrip(s))

\* What subprocess.run can do: the process exits with a return code and a
\* standard output, it exceeds the timeout, or it cannot be started.
NoProcess == [kind |-> "none", returncode |-> 0, stdout |-> <<>>]
Processes ==
    {[kind |-> "exited", returncode |-> rc, stdout |-> out] :
        rc \in {0, 1}, out \in Stdouts}
    \cup {[kind |-> "timeout", returncode |-> 0, stdout |-> <<>>],
          [kind |-> "oserror", returncode |-> 0, stdout |-> <<>>]}

CallOk(text) == [ok |-> TRUE, text |-> text, exc |-> NoExc]
CallErr(exc) == [ok |-> FALSE, text |-> <<>>, exc |-> exc]

CallClaudeCliAcceptsBlank(p) ==
    CASE p.kind = "timeout" ->
             CallErr(Exc("RuntimeError", "Claude evaluation timed out"))
      [] p.kind = "oserror" ->
             CallErr(Exc("RuntimeError", "Error calling Claude: OSError"))
      [] p.returncode # 0 ->
             CallErr(Exc("RuntimeError", "Error calling Claude: Claude CLI failed"))
      [] p.stdout = <<>> ->
             CallErr(Exc("RuntimeError",
                         "Error calling Claude: Claude returned empty response"))
      [] OTHER -> CallOk(p.stdout)

\* _call_claude_cli. The RuntimeErrors raised inside the try block are caught
\* by its `except Exception` and leave as "Error calling Claude: ...".
CallClaudeCli(p) ==
    CASE p.kind = "timeout" ->
             CallErr(Exc("RuntimeError", "Claude evaluation timed out"))
      [] p.kind = "oserror" ->
             CallErr(Exc("RuntimeError", "Error calling Claude: OSError"))
      [] p.returncode # 0 ->
             CallErr(Exc("RuntimeError", "Error calling Claude: Claude CLI failed"))
      [] Strip(p.stdout) = <<>> ->
             CallErr(Exc("RuntimeError",
                         "Error calling Claude: Claude returned empty response"))
      [] OTHER -> CallOk(Strip(p.stdout))

\* _build_prompt: the frame count it states and the numbered list of paths.
ClaudeBuildPrompt(frame_paths) ==
    [count |-> Len(frame_paths), paths |-> frame_paths]

NoPrompt == [count |-> 0, paths |-> <<>>]

NoClaudeResult ==
    [evaluation_markdown |-> <<>>, frames_analyzed |-> -1,
     total_frames_available |-> -1, sampling_strategy |-> None]

\* The result dictionary of evaluate.
ClaudeResult(text, selected, frames, strategy) ==
    [evaluation_markdown |-> text, frames_analyzed |-> Len(selected),
     total_frames_available |-> Len(frames), sampling_strategy |-> strategy]

\* The line log_evaluation_cost appends.
ClaudeLedgerEntry(input_tokens, output_tokens) ==
    [model |-> "claude-sonnet-4-20250514", video_id |-> "video", rubric |-> "rubric",
     input_tokens |-> input_tokens, output_tokens |-> output_tokens,
     cost |-> Round4(CalculateCost(Id(KeySonnet4), input_tokens, output_tokens).cost)]

\* The cost the evaluation page hands to the catalog with a result:
\* result.get('cost_info', {}).get('total_cost'), None without the key.
CatalogCost(result) ==
    IF "cost_info" \in DOMAIN result
    THEN [present |-> TRUE, value |-> result.cost_info.total_cost]
    ELSE [present |-> FALSE, value |-> 0]

\* ClaudeEvaluator(...): the evaluator as the constructor leaves it.
ClaudeStart ==
    /\ c_requested \in ClaudeRequests
    /\ c_max_frames = CappedMaxFrames(c_requested)
    /\ c_strategy \in Strategies
    /\ c_frames \in {FrameList(n) : n \in ClaudeFrameCounts}
    /\ cpc = "init"
    /\ c_selected = <<>>
    /\ c_prompt = NoPrompt
    /\ c_process = NoProcess
    /\ c_text = <<>>
    /\ c_result = NoClaudeResult
    /\ c_error = NoExc
    /\ c_ledger = <<>>

\* evaluate: sample_frames.
ClaudeSample ==
    /\ cpc = "init"
    /\ LET r == SampleFrames(c_frames, c_strategy, c_max_frames)
       IN  IF r.ok
           THEN /\ c_selected' = r.frames
                /\ cpc' = "sampled"
                /\ UNCHANGED c_error
           ELSE /\ cpc' = "failed"
                /\ c_error' = Exc(r.err, "sample_frames")
                /\ UNCHANGED c_selected
    /\ UNCHANGED <<c_requested, c_max_frames, c_strategy, c_frames, c_prompt,
                   c_process, c_text, c_result, c_ledger>>
    /\ UNCHANGED notClaude

ClaudeCallStartsOver ==
    /\ cpc = "sampled"
    /\ c_prompt' = ClaudeBuildPrompt(c_selected)
    /\ \E p \in Processes :
         LET r == CallClaudeCli(p)
         IN  /\ c_process' = p
             /\ IF r.ok
                THEN /\ c_text' = r.text
                     /\ cpc' = "called"
                     /\ UNCHANGED c_error
                ELSE /\ cpc' = IF c_process = NoProcess THEN "init" ELSE "failed"
                     /\ c_error' = IF c_process = NoProcess THEN c_error ELSE r.exc
                     /\ UNCHANGED c_text
    /\ UNCHANGED <<c_requested, c_max_frames, c_strategy, c_frames, c_selected,
                   c_result, c_ledger>>
    /\ UNCHANGED notClaude

\* evaluate: _build_prompt and _call_claude_cli.
ClaudeCall ==
    /\ cpc = "sampled"
    /\ c_prompt' = ClaudeBuildPrompt(c_selected)
    /\ \E p \in Processes :
         LET r == CallClaudeCli(p)
         IN  /\ c_process' = p
             /\ IF r.ok
                THEN /\ c_text' = r.text
                     /\ cpc' = "called"
                     /\ UNCHANGED c_error
                ELSE /\ cpc' = "failed"
                     /\ c_error' = r.exc
                     /\ UNCHANGED c_text
    /\ UNCHANGED <<c_requested, c_max_frames, c_strategy, c_frames, c_selected,
                   c_result, c_ledger>>
    /\ UNCHANGED notClaude

\* evaluate: the token estimates (len(prompt) // 4, a count of the model, and
\* len(evaluation_text) // 4), calculate_cost, log_evaluation_cost (which can
\* fail to open the ledger), the result dictionary.
ClaudeFinish ==
    /\ cpc = "called"
    /\ \E logged \in BOOLEAN : \E input_tokens \in TokenCounts :
         IF logged
         THEN /\ c_ledger' = Append(c_ledger,
                                    ClaudeLedgerEntry(input_tokens, Len(c_text) \div 4))
              /\ c_result' = ClaudeResult(c_text, c_selected, c_frames, c_strategy)
              /\ cpc' = "done"
              /\ UNCHANGED c_error
         ELSE /\ cpc' = "failed"
              /\ c_error' = Exc("OSError", "data/cost_log.jsonl")
              /\ UNCHANGED <<c_ledger, c_result>>
    /\ UNCHANGED <<c_requested, c_max_frames, c_strategy, c_frames, c_selected,
                   c_prompt, c_process, c_text>>
    /\ UNCHANGED notClaude

(***************************************************************************)
(*   VideoEvaluator.load_video_data (pipeline/evaluators/base.py)          *)
(***************************************************************************)

\* A file of frames/: its number and its extension. The frame extractor
\* writes frame_<number>_t<seconds>s.jpg; anything else may lie there too.
DirEntries ==
    {[n |-> k, ext |-> e] : k \in 1 .. MaxEntries, e \in {"jpg", "txt"}}

\* sorted(...) of a set of frame files: by name, that is by number.
RECURSIVE Sorted(_)
Sorted(S) ==
    IF S = {} THEN <<>>
    ELSE LET m == CHOOSE x \in S : \A y \in S : x.n <= y.n
         IN  <<m>> \o Sorted(S \ {m})

\* frames_dir.glob("*.jpg")
GlobJpg(entries) == {e \in entries : e.ext = "jpg"}

NoAsset ==
    [metadata |-> None, transcript |-> None, transcript_data |-> None, frames |-> <<>>]
NoLoad == [ok |-> FALSE, asset |-> NoAsset, err |-> None]
LoadErr(e) == [ok |-> FALSE, asset |-> NoAsset, err |-> e]

LoadVideoDataAllowsNoFrames(d) ==
    IF ~d.video_dir \/ d.metadata = "absent" \/ d.transcript_txt = "absent"
           \/ ~d.frames_dir
    THEN LoadErr("FileNotFoundError")
    ELSE IF d.metadata = "invalid" \/ d.transcript_json = "invalid"
    THEN LoadErr("JSONDecodeError")
    ELSE [ok |-> TRUE, err |-> None, asset |->
             [metadata |-> "metadata", transcript |-> "transcript",
              transcript_data |-> IF d.transcript_json = "valid" THEN "data" ELSE None,
              frames |-> Sorted(GlobJpg(d.entries))]]

\* load_video_data on the directory d, in the order of its checks.
LoadVideoData(d) ==
    LET frames == Sorted(GlobJpg(d.entries))
    IN  CASE ~d.video_dir -> LoadErr("FileNotFoundError")
          [] d.metadata = "absent" -> LoadErr("FileNotFoundError")
          [] d.metadata = "invalid" -> LoadErr("JSONDecodeError")
          [] d.transcript_txt = "absent" -> LoadErr("FileNotFoundError")
          [] d.transcript_json = "invalid" -> LoadErr("JSONDecodeError")
          [] ~d.frames_dir -> LoadErr("FileNotFoundError")
          [] frames = <<>> -> LoadErr("FileNotFoundError")
          [] OTHER ->
               [ok |-> TRUE, err |-> None, asset |->
                   [metadata |-> "metadata", transcript |-> "transcript",
                    transcript_data |->
                        IF d.transcript_json = "valid" THEN "data" ELSE None,
                    frames |-> frames]]

\* data/<video_id> as the call finds it.
VideoDir ==
    [video_dir |-> l_video_dir, metadata |-> l_metadata,
     transcript_txt |-> l_transcript_txt, transcript_json |-> l_transcript_json,
     frames_dir |-> l_frames_dir, entries |-> l_entries]

\* The directory as ingestion, or anything else, has left it: nothing lies
\* under a directory that does not exist.
LoadStart ==
    /\ l_video_dir \in BOOLEAN
    /\ l_metadata \in {"absent", "valid", "invalid"}
    /\ l_transcript_txt \in {"absent", "present"}
    /\ l_transcript_json \in {"absent", "valid", "invalid"}
    /\ l_frames_dir \in BOOLEAN
    /\ l_entries \in SUBSET DirEntries
    /\ ~l_video_dir =>
           /\ l_metadata = "absent" /\ l_transcript_txt = "absent"
           /\ l_transcript_json = "absent" /\ ~l_frames_dir
    /\ ~l_frames_dir => l_entries = {}
    /\ lpc = "call"
    /\ l_result = NoLoad

LoadCall ==
    /\ lpc = "call"
    /\ l_result' = LoadVideoData(VideoDir)
    /\ lpc' = "done"
    /\ UNCHANGED <<l_video_dir, l_metadata, l_transcript_txt, l_transcript_json,
                   l_frames_dir, l_entries>>
    /\ UNCHANGED notLoad

(***************************************************************************)
(*   GeminiEvaluator: evaluate and _call_gemini                            *)
(*   (pipeline/evaluators/gemini_evaluator.py)                             *)
(***************************************************************************)

\* `if finish_reason == 2:`, what the code takes for the safety block.
SafetyFinishReason == 2

\* The finish reasons of a candidate: none (0), stop (1), the one the code
\* takes for the safety block, another one.
FinishReasons == {0, 1, SafetyFinishReason, 3}

\* safety_ratings of a candidate: each names a category and says whether it
\* blocked the response.
Rating(c, b) == [category |-> c, blocked |-> b]
SafetyRatings ==
    {<<>>,
     <<Rating("HARM_CATEGORY_HARASSMENT", FALSE)>>,
     <<Rating("HARM_CATEGORY_HARASSMENT", TRUE)>>,
     <<Rating("HARM_CATEGORY_HARASSMENT", FALSE),
       Rating("HARM_CATEGORY_DANGEROUS_CONTENT", TRUE)>>,
     <<Rating("HARM_CATEGORY_HARASSMENT", TRUE),
       Rating("HARM_CATEGORY_DANGEROUS_CONTENT", TRUE)>>}

\* What generate_content can give: it raises, or it returns a response with
\* no or one candidate; reading response.text gives a text, gives the empty
\* text, or raises; the response has usage metadata or not.
NoResponse ==
    [kind |-> "none", candidates |-> <<>>, text_raises |-> FALSE, text |-> "",
     has_usage |-> FALSE]
GeminiResponses ==
    {[kind |-> "response", candidates |-> cs, text_raises |-> tr, text |-> t,
      has_usage |-> u] :
        cs \in {<<>>} \cup {<<[finish_reason |-> fr, safety_ratings |-> sr]>> :
                               fr \in FinishReasons, sr \in SafetyRatings},
        tr \in BOOLEAN, t \in {"", "evaluation"}, u \in BOOLEAN}
    \cup {[kind |-> "api_error", candidates |-> <<>>, text_raises |-> FALSE,
           text |-> "", has_usage |-> FALSE]}

\* An error message is a sequence of parts; the part about a blocked response
\* has the list of categories formatted into it.
Part(t) == [text |-> t, categories |-> <<>>]
NoGeminiExc == [class |-> "none", msg |-> <<>>]
GeminiExc(c, m) == [class |-> c, msg |-> m]

\* [r.category.name for r in safety_ratings if r.blocked]
RECURSIVE BlockedCategories(_)
BlockedCategories(ratings) ==
    IF ratings = <<>> THEN <<>>
    ELSE (IF Head(ratings).blocked THEN <<Head(ratings).category>> ELSE <<>>)
             \o BlockedCategories(Tail(ratings))

BlockedError(ratings) ==
    GeminiExc("RuntimeError",
              <<[text |-> "Response blocked by safety filters. Categories: ",
                 categories |-> BlockedCategories(ratings)],
                Part("Try simplifying the rubric or video content.")>>)

EmptyError == GeminiExc("RuntimeError", <<Part("Gemini returned empty response")>>)

\* except Exception as e: raise RuntimeError(f"Gemini API call failed: {e}")
WrapGeminiError(e) ==
    GeminiExc("RuntimeError", <<Part("Gemini API call failed: ")>> \o e.msg)

GeminiOk(text, usage) ==
    [ok |-> TRUE, text |-> text, usage |-> usage, exc |-> NoGeminiExc]
GeminiErr(e) == [ok |-> FALSE, text |-> "", usage |-> FALSE, exc |-> e]

\* `if response.candidates and response.candidates[0].finish_reason:` and
\* `if finish_reason == 2:`
IsBlocked(resp) ==
    /\ resp.candidates # <<>>
    /\ resp.candidates[1].finish_reason # 0
    /\ resp.candidates[1].finish_reason = SafetyFinishReason

HandleResponseChecksTextFirst(resp) ==
    CASE resp.kind = "api_error" ->
             GeminiErr(WrapGeminiError(GeminiExc("APIError", <<Part("api error")>>)))
      [] resp.text_raises ->
             GeminiErr(WrapGeminiError(GeminiExc("ValueError", <<Part("response.text")>>)))
      [] resp.text = "" -> GeminiErr(WrapGeminiError(EmptyError))
      [] IsBlocked(resp) ->
             GeminiErr(WrapGeminiError(BlockedError(resp.candidates[1].safety_ratings)))
      [] OTHER -> GeminiOk(resp.text, resp.has_usage)

\* The try block of _call_gemini, from generate_content on.
HandleResponse(resp) ==
    CASE resp.kind = "api_error" ->
             GeminiErr(WrapGeminiError(GeminiExc("APIError", <<Part("api error")>>)))
      [] IsBlocked(resp) ->
             GeminiErr(WrapGeminiError(BlockedError(resp.candidates[1].safety_ratings)))
      [] resp.text_raises ->
             GeminiErr(WrapGeminiError(GeminiExc("ValueError", <<Part("response.text")>>)))
      [] resp.text = "" -> GeminiErr(WrapGeminiError(EmptyError))
      [] OTHER -> GeminiOk(resp.text, resp.has_usage)

\* The frames that can be read, in order: the loop over frame_paths skips a
\* frame whose file cannot be opened.
LoadFrames(frame_paths, unreadable) ==
    SelectSeq(frame_paths, LAMBDA f : f \notin unreadable)

Range(s) == {s[i] : i \in 1 .. Len(s)}

NoGeminiResult ==
    [evaluation_markdown |-> "", frames_analyzed |-> -1,
     total_frames_available |-> -1, sampling_strategy |-> None]

\* The result dictionary of evaluate.
GeminiResult(text, selected, frames, strategy) ==
    [evaluation_markdown |-> text, frames_analyzed |-> Len(selected),
     total_frames_available |-> Len(frames), sampling_strategy |-> strategy]

\* The line log_evaluation_cost appends.
GeminiLedgerEntry ==
    [model |-> "models/gemini-2.5-flash", video_id |-> "video", rubric |-> "rubric"]

\* GeminiEvaluator(...): the evaluator as the constructor leaves it, and the
\* frames of the video.
GeminiStart ==
    /\ g_frames \in {FrameList(n) : n \in 0 .. MaxEntries}
    /\ g_strategy \in Strategies
    /\ g_max_frames \in 1 .. MaxEntries
    /\ gpc = "init"
    /\ g_selected = <<>>
    /\ g_sent = <<>>
    /\ g_response = NoResponse
    /\ g_text = ""
    /\ g_usage = FALSE
    /\ g_result = NoGeminiResult
    /\ g_error = NoGeminiExc
    /\ g_ledger = <<>>

\* evaluate: sample_frames.
GeminiSample ==
    /\ gpc = "init"
    /\ LET r == SampleFrames(g_frames, g_strategy, g_max_frames)
       IN  IF r.ok
           THEN /\ g_selected' = r.frames
                /\ gpc' = "sampled"
                /\ UNCHANGED g_error
           ELSE /\ gpc' = "failed"
                /\ g_error' = GeminiExc(r.err, <<Part("sample_frames")>>)
                /\ UNCHANGED g_selected
    /\ UNCHANGED <<g_frames, g_strategy, g_max_frames, g_sent, g_response, g_text,
                   g_usage, g_result, g_ledger>>
    /\ UNCHANGED notGemini

\* evaluate: _call_gemini. Some of the frame files may not be readable.
GeminiCall ==
    /\ gpc = "sampled"
    /\ \E unreadable \in SUBSET Range(g_selected) :
         LET loaded == LoadFrames(g_selected, unreadable)
         IN  /\ g_sent' = loaded
             /\ IF loaded = <<>>
                THEN /\ gpc' = "failed"
                     /\ g_error' = GeminiExc("RuntimeError",
                                             <<Part("No frames could be loaded")>>)
                     /\ UNCHANGED <<g_response, g_text, g_usage>>
                ELSE \E resp \in GeminiResponses :
                       LET r == HandleResponse(resp)
                       IN  /\ g_response' = resp
                           /\ IF r.ok
                              THEN /\ g_text' = r.text
                                   /\ g_usage' = r.usage
                                   /\ gpc' = "called"
                                   /\ UNCHANGED g_error
                              ELSE /\ gpc' = "failed"
                                   /\ g_error' = r.exc
                                   /\ UNCHANGED <<g_text, g_usage>>
    /\ UNCHANGED <<g_frames, g_strategy, g_max_frames, g_selected, g_result, g_ledger>>
    /\ UNCHANGED notGemini

\* evaluate: the cost log, when there is usage metadata (log_evaluation_cost
\* can fail to open the ledger), and the result dictionary.
GeminiFinish ==
    /\ gpc = "called"
    /\ \E logged \in BOOLEAN :
         IF g_usage /\ ~logged
         THEN /\ gpc' = "failed"
              /\ g_error' = GeminiExc("OSError", <<Part("data/cost_log.jsonl")>>)
              /\ UNCHANGED <<g_ledger, g_result>>
         ELSE /\ g_ledger' = IF g_usage THEN Append(g_ledger, GeminiLedgerEntry)
                             ELSE g_ledger
              /\ g_result' = GeminiResult(g_text, g_selected, g_frames, g_strategy)
              /\ gpc' = "done"
              /\ UNCHANGED g_error
    /\ UNCHANGED <<g_frames, g_strategy, g_max_frames, g_selected, g_sent,
                   g_response, g_text, g_usage>>
    /\ UNCHANGED notGemini


(***************************************************************************)
(* Database.upsert_evaluation (src/src/database.py), called by evaluations *)
(* that run side by side. Each request to the store is one step. The       *)
(* schema of the evaluations table is not part of the code: the table may  *)
(* or may not reject a second row with the same pair and version.          *)
(***************************************************************************)
Callers == 1 .. MaxCallers

\* (video_id, rubric_name) of an evaluation
Pairs == {"video/content_safety", "video/ai_quality"}

SetMax(S) == CHOOSE x \in S : \A y \in S : y <= x

\* get_next_version: the highest version of the pair plus one, 1 without a
\* row of the pair.
GetNextVersion(rows, pair) ==
    LET versions == {rows[k].version : k \in {j \in 1 .. Len(rows) : rows[j].pair = pair}}
    IN  IF versions = {} THEN 1 ELSE SetMax(versions) + 1

\* table("evaluations").insert(row).execute()
InsertRow(rows, row, unique) ==
    IF unique /\ \E k \in 1 .. Len(rows) : rows[k] = row
    THEN [ok |-> FALSE, rows |-> rows]
    ELSE [ok |-> TRUE, rows |-> Append(rows, row)]

\* The table holds nothing, or the first evaluation of a pair.
DbStart ==
    /\ d_unique \in BOOLEAN
    /\ d_rows \in {<<>>, <<[pair |-> "video/content_safety", version |-> 1]>>}
    /\ d_pc = [c \in Callers |-> "start"]
    /\ d_pair \in [Callers -> Pairs]
    /\ d_next = [c \in Callers |-> 0]

\* upsert_evaluation: next_version = self.get_next_version(...)
UpsertGetNextVersion(c) ==
    /\ d_pc[c] = "start"
    /\ d_next' = [d_next EXCEPT ![c] = GetNextVersion(d_rows, d_pair[c])]
    /\ d_pc' = [d_pc EXCEPT ![c] = "insert"]
    /\ UNCHANGED <<d_unique, d_rows, d_pair>>
    /\ UNCHANGED notDb

\* upsert_evaluation: evaluation.version = next_version and the insert,
\* which raises when the table rejects the row.
UpsertInsert(c) ==
    /\ d_pc[c] = "insert"
    /\ LET r == InsertRow(d_rows, [pair |-> d_pair[c], version |-> d_next[c]], d_unique)
       IN  /\ d_rows' = r.rows
           /\ d_pc' = [d_pc EXCEPT ![c] = IF r.ok THEN "done" ELSE "failed"]
    /\ UNCHANGED <<d_unique, d_pair, d_next>>
    /\ UNCHANGED notDb

(***************************************************************************)
(* log_evaluation_cost called by evaluations that run side by side, and    *)
(* get_total_cost. open(log_file, "a") opens the file for appending and    *)
(* creates it; the line is written by one write at the end of the file,    *)
(* when the with block closes the file.                                    *)
(***************************************************************************)
Writers == 1 .. MaxWriters

NoEntry == LogEntry(<<>>, 0, 0, 0)

\* The entries the evaluations log.
AppendEntries ==
    {LogEntry(m, i, o, CalculateCost(Id(m), i, o).cost) :
        m \in {KeySonnet4, KeyGeminiFlash}, i \in TokenCounts \ {0}, o \in TokenCounts}

AppendStart ==
    /\ a_earlier \in {<<>>} \cup {<<e>> : e \in AppendEntries}
    /\ a_file = a_earlier
    /\ a_exists \in {a_earlier # <<>>, TRUE}
    /\ a_pc = [w \in Writers |-> "start"]
    /\ a_entry \in [Writers -> AppendEntries]
    /\ a_out = NoTotal

\* log_evaluation_cost: mkdir and open(log_file, "a").
AppendOpen(w) ==
    /\ a_pc[w] = "start"
    /\ a_pc' = [a_pc EXCEPT ![w] = "open"]
    /\ a_exists' = TRUE
    /\ a_out' = NoTotal
    /\ UNCHANGED <<a_file, a_earlier, a_entry>>
    /\ UNCHANGED notAppend

\* log_evaluation_cost: f.write(json.dumps(log_entry) + "\n") and the end of
\* the with block.
AppendWrite(w) ==
    /\ a_pc[w] = "open"
    /\ a_file' = LogEvaluationCost(a_file, a_entry[w])
    /\ a_pc' = [a_pc EXCEPT ![w] = "closed"]
    /\ a_out' = NoTotal
    /\ UNCHANGED <<a_exists, a_earlier, a_entry>>
    /\ UNCHANGED notAppend

\* get_total_cost, called at any time.
AppendTotal ==
    /\ ~a_out.called
    /\ a_out' = GetTotalCost(a_exists, a_file)
    /\ UNCHANGED <<a_exists, a_file, a_earlier, a_pc, a_entry>>
    /\ UNCHANGED notAppend
(***************************************************************************)
(*                           Specifications                                *)
(***************************************************************************)

RetryIdle ==
    /\ variant = None /\ max_retries = 0 /\ attempt = 0 /\ causes = <<>>
    /\ rpc = "idle" /\ raised = NoExc /\ returned = None

SampleIdle ==
    /\ s_frames = <<>> /\ s_strategy = None /\ s_max = 0
    /\ s_pc = "idle" /\ s_result = None

OllamaIdle ==
    /\ o_frames = <<>> /\ o_strategy = None /\ o_max_frames = 0 /\ batch_size = 0
    /\ o_models = NoModels
    /\ opc = "idle" /\ selected_frames = <<>> /\ batches = <<>>
    /\ partial_analyses = <<>> /\ vision_log = <<>> /\ synth_log = <<>>
    /\ o_result = NoResult /\ o_error = NoOllamaError /\ o_ledger = <<>>

RunIdle ==
    /\ run = 0 /\ backend = None /\ rubric = None /\ runpc = "idle"
    /\ failed_at = None /\ clock = 0 /\ ledger = <<>> /\ files = {} /\ saves = 0

ClaudeIdle ==
    /\ c_requested = 0 /\ c_max_frames = 0 /\ c_strategy = None /\ c_frames = <<>>
    /\ cpc = "idle" /\ c_selected = <<>> /\ c_prompt = NoPrompt
    /\ c_process = NoProcess /\ c_text = <<>> /\ c_result = NoClaudeResult
    /\ c_error = NoExc /\ c_ledger = <<>>

LoadIdle ==
    /\ l_video_dir = FALSE /\ l_metadata = "absent" /\ l_transcript_txt = "absent"
    /\ l_transcript_json = "absent" /\ l_frames_dir = FALSE /\ l_entries = {}
    /\ lpc = "idle" /\ l_result = NoLoad

GeminiIdle ==
    /\ g_frames = <<>> /\ g_strategy = None /\ g_max_frames = 0 /\ gpc = "idle"
    /\ g_selected = <<>> /\ g_sent = <<>> /\ g_response = NoResponse
    /\ g_text = "" /\ g_usage = FALSE /\ g_result = NoGeminiResult
    /\ g_error = NoGeminiExc /\ g_ledger = <<>>

CalcIdle ==
    /\ k_arg = [model_name |-> AbsentId, input_tokens |-> 0, output_tokens |-> 0]
    /\ k_pc = "idle" /\ k_calc = CalcOk(0) /\ k_double = DZero

LedgerIdle ==
    /\ k_exists = FALSE /\ k_lines = <<>> /\ k_logged = 0 /\ k_out = NoTotal

DbIdle ==
    /\ d_unique = FALSE /\ d_rows = <<>> /\ d_pc = [c \in Callers |-> "idle"]
    /\ d_pair = [c \in Callers |-> None] /\ d_next = [c \in Callers |-> 0]

AppendIdle ==
    /\ a_exists = FALSE /\ a_file = <<>> /\ a_earlier = <<>>
    /\ a_pc = [w \in Writers |-> "idle"] /\ a_entry = [w \in Writers |-> NoEntry]
    /\ a_out = NoTotal

RetryInit ==
    RetryStart /\ SampleIdle /\ OllamaIdle /\ RunIdle /\
    ClaudeIdle /\ LoadIdle /\ GeminiIdle /\ CalcIdle /\ LedgerIdle /\
    DbIdle /\ AppendIdle
RetryNext == RetryAttempt \/ RetryFallOff
SpecRetry == RetryInit /\ [][RetryNext]_vars

SampleInit ==
    SampleStart /\ RetryIdle /\ OllamaIdle /\ RunIdle /\
    ClaudeIdle /\ LoadIdle /\ GeminiIdle /\ CalcIdle /\ LedgerIdle /\
    DbIdle /\ AppendIdle
SampleNext == SampleCall
SpecSample == SampleInit /\ [][SampleNext]_vars

OllamaInit ==
    OllamaStart /\ RetryIdle /\ SampleIdle /\ RunIdle /\
    ClaudeIdle /\ LoadIdle /\ GeminiIdle /\ CalcIdle /\ LedgerIdle /\
    DbIdle /\ AppendIdle
OllamaNext ==
    OllamaSample \/ OllamaCreateBatches \/ OllamaAnalyzeBatch \/ OllamaSynthesize
SpecOllama == OllamaInit /\ [][OllamaNext]_vars

RunInit ==
    RunStart /\ RetryIdle /\ SampleIdle /\ OllamaIdle /\
    ClaudeIdle /\ LoadIdle /\ GeminiIdle /\ CalcIdle /\ LedgerIdle /\
    DbIdle /\ AppendIdle
RunNext == RunLoad \/ RunSample \/ RunInvoke \/ RunSave \/ RunAgain \/ Tick
SpecRun == RunInit /\ [][RunNext]_vars

(***************************************************************************)
(*                              The claims                                 *)
(***************************************************************************)

ClaudeInit ==
    ClaudeStart /\ RetryIdle /\ SampleIdle /\ OllamaIdle /\
    RunIdle /\ LoadIdle /\ GeminiIdle /\ CalcIdle /\ LedgerIdle /\ DbIdle /\
    AppendIdle
ClaudeNext == ClaudeSample \/ ClaudeCall \/ ClaudeFinish
SpecClaude == ClaudeInit /\ [][ClaudeNext]_vars

LoadInit ==
    LoadStart /\ RetryIdle /\ SampleIdle /\ OllamaIdle /\
    RunIdle /\ ClaudeIdle /\ GeminiIdle /\ CalcIdle /\ LedgerIdle /\
    DbIdle /\ AppendIdle
LoadNext == LoadCall
SpecLoad == LoadInit /\ [][LoadNext]_vars

GeminiInit ==
    GeminiStart /\ RetryIdle /\ SampleIdle /\ OllamaIdle /\
    RunIdle /\ ClaudeIdle /\ LoadIdle /\ CalcIdle /\ LedgerIdle /\ DbIdle /\
    AppendIdle
GeminiNext == GeminiSample \/ GeminiCall \/ GeminiFinish
SpecGemini == GeminiInit /\ [][GeminiNext]_vars

CalcInit ==
    CalcStart /\ RetryIdle /\ SampleIdle /\ OllamaIdle /\
    RunIdle /\ ClaudeIdle /\ LoadIdle /\ GeminiIdle /\ LedgerIdle /\
    DbIdle /\ AppendIdle
CalcNext == CalcCall
SpecCalc == CalcInit /\ [][CalcNext]_vars

LedgerInit ==
    LedgerStart /\ RetryIdle /\ SampleIdle /\ OllamaIdle /\
    RunIdle /\ ClaudeIdle /\ LoadIdle /\ GeminiIdle /\ CalcIdle /\ DbIdle /\
    AppendIdle
LedgerNext == LedgerLog \/ LedgerTotal
SpecLedger == LedgerInit /\ [][LedgerNext]_vars


DbInit ==
    DbStart /\ RetryIdle /\ SampleIdle /\ OllamaIdle /\ RunIdle /\
    ClaudeIdle /\ LoadIdle /\ GeminiIdle /\ CalcIdle /\ LedgerIdle /\
    AppendIdle
DbNext == \E c \in Callers : UpsertGetNextVersion(c) \/ UpsertInsert(c)
SpecDb == DbInit /\ [][DbNext]_vars

AppendInit ==
    AppendStart /\ RetryIdle /\ SampleIdle /\ OllamaIdle /\
    RunIdle /\ ClaudeIdle /\ LoadIdle /\ GeminiIdle /\ CalcIdle /\
    LedgerIdle /\ DbIdle
AppendNext == (\E w \in Writers : AppendOpen(w) \/ AppendWrite(w)) \/ AppendTotal
SpecAppend == AppendInit /\ [][AppendNext]_vars

\* One evaluate call of any of the three backends.
EvaluateStart == ClaudeInit \/ GeminiInit \/ OllamaInit
EvaluateNext ==
    \/ ClaudeSample \/ ClaudeCall \/ ClaudeFinish
    \/ GeminiSample \/ GeminiCall \/ GeminiFinish
    \/ OllamaSample \/ OllamaCreateBatches \/ OllamaAnalyzeBatch \/ OllamaSynthesize
SpecEvaluate == EvaluateStart /\ [][EvaluateNext]_vars
AllFailed == \A i \in 1 .. Len(causes) : ~EvaluateVideo(variant, causes[i]).ok

\* C1: with max_retries >= 0 and every attempt failing, evaluate_with_retry
\* ends by raising after exactly max_retries + 1 attempts, and no run makes
\* more than max_retries + 1 attempts.
C1_ExactlyMaxRetriesPlusOneAttempts ==
    max_retries >= 0 =>
        /\ Len(causes) <= max_retries + 1
        /\ (rpc # "loop" /\ AllFailed) =>
               (rpc = "raised" /\ Len(causes) = max_retries + 1)
        /\ (rpc = "loop" /\ AllFailed) => Len(causes) = attempt

C1_Witness ==
    /\ max_retries = 2
    /\ rpc = "raised"
    /\ causes = <<"rate_limit", "rate_limit", "rate_limit">>

NonTransientFailures == {"api_error", "nonzero_exit", "other", "encode_error"}

ExhaustionMessages ==
    {ExhaustedError("api").msg, ExhaustedError("cli").msg}

\* C3: when every one of the max_retries + 1 attempts fails with a transient
\* failure, the error raised is the wrapper that names retry exhaustion.
C3_ExhaustionRaisesWrapper ==
    (/\ rpc = "raised"
     /\ max_retries >= 0
     /\ Len(causes) = max_retries + 1
     /\ \A i \in 1 .. Len(causes) : causes[i] \in Transient)
        => raised.msg \in ExhaustionMessages
BatchesCreated == opc \in {"batch_loop", "done", "failed"}

\* The analysis _analyze_batches must record for the k-th call of the vision
\* model: its text, or the placeholder of its failure.
RecordedAnalysis(k) ==
    IF vision_log[k].ok
    THEN VisionText(k, vision_log[k].images)
    ELSE FailurePlaceholder(vision_log[k].e)

\* C4: whichever batches fail in phase 1, the pipeline does not abort: each
\* batch is sent to the vision model, and _analyze_batches returns one entry
\* per batch, in batch order, holding the model's text for a batch that
\* succeeded and the failure placeholder for a batch that failed.
C4_BatchFailuresAreIsolated ==
    BatchesCreated =>
        /\ Len(partial_analyses) = Len(vision_log)
        /\ \A k \in 1 .. Len(partial_analyses) :
               /\ partial_analyses[k].batch_num = k
               /\ partial_analyses[k].frames = batches[k]
               /\ vision_log[k].images = batches[k]
               /\ partial_analyses[k].analysis = RecordedAnalysis(k)
        /\ (opc # "batch_loop") =>
               /\ Len(partial_analyses) = Len(batches)
               /\ Len(synth_log) = 1
        /\ (opc = "failed") => o_error.at = "_synthesize_evaluation"

C4_Witness ==
    /\ opc = "done"
    /\ Len(batches) = 3
    /\ vision_log[1].ok /\ ~vision_log[2].ok /\ vision_log[3].ok
    /\ partial_analyses[2].analysis = FailurePlaceholder("ResponseError")

\* C5: the synthesis model is called once per evaluate call, after every
\* batch has been sent to the vision model one after another in batch
\* order; when that call fails, evaluate fails without a result (no second
\* call, no fallback result).
C5_SynthesisOnceAfterAllBatches ==
    /\ Len(synth_log) <= 1
    /\ \A k \in 1 .. Len(vision_log) : vision_log[k].batch_num = k
    /\ Len(synth_log) = 1 =>
           /\ BatchesCreated
           /\ Len(vision_log) = Len(batches)
           /\ opc \in {"done", "failed"}
    /\ opc \in {"done", "failed"} => Len(synth_log) = 1
    /\ opc = "done" => (synth_log[1].ok /\ o_result # NoResult)
    /\ (Len(synth_log) = 1 /\ ~synth_log[1].ok) => (opc = "failed" /\ o_result = NoResult)

C5_Witness ==
    /\ opc = "failed"
    /\ Len(vision_log) = 3
    /\ Len(synth_log) = 1
    /\ ~synth_log[1].ok
    /\ o_result = NoResult

\* The k-th contiguous block of size frames of a list (k from 1).
Block(frames, size, k) ==
    SubSeq(frames, (k - 1) * size + 1, Min(k * size, Len(frames)))

\* C6: for N sampled frames and batch size B the synthesis prompt has
\* ceil(N / B) batch sections, labelled 1, 2, ... in that order, and section
\* k holds the analysis, or the failure placeholder, of the k-th contiguous
\* block of frames.
C6_PromptHasOneSectionPerBatch ==
    Len(synth_log) = 1 =>
        LET p == synth_log[1].prompt
            n == Len(selected_frames)
        IN  /\ Len(p.sections) = CeilDiv(n, batch_size)
            /\ p.num_batches = CeilDiv(n, batch_size)
            /\ \A k \in 1 .. Len(p.sections) :
                   /\ p.sections[k].label = k
                   /\ vision_log[k].images = Block(selected_frames, batch_size, k)
                   /\ p.sections[k].body =
                          IF vision_log[k].ok
                          THEN VisionText(k, Block(selected_frames, batch_size, k))
                          ELSE FailurePlaceholder(vision_log[k].e)

C6_Witness ==
    /\ Len(synth_log) = 1
    /\ Len(selected_frames) = 5
    /\ batch_size = 2
    /\ Len(synth_log[1].prompt.sections) = 3
    /\ synth_log[1].prompt.sections[2].body = FailurePlaceholder("ResponseError")
    /\ synth_log[1].prompt.sections[3].body = VisionText(3, <<selected_frames[5]>>)

\* C7: _create_batches splits N frames into ceil(N / B) contiguous batches:
\* each batch but the last has B frames, the last has 1 to B frames, and the
\* batches joined in order are the input list.
C7_CreateBatchesPartitions ==
    BatchesCreated =>
        LET n == Len(selected_frames)
            m == Len(batches)
        IN  /\ m = CeilDiv(n, batch_size)
            /\ \A k \in 1 .. m - 1 : Len(batches[k]) = batch_size
            /\ m > 0 => (Len(batches[m]) >= 1 /\ Len(batches[m]) <= batch_size)
            /\ Flatten(batches) = selected_frames

C7_Witness ==
    /\ opc = "batch_loop"
    /\ Len(selected_frames) = 5
    /\ batch_size = 3
    /\ batches = <<SubSeq(selected_frames, 1, 3), SubSeq(selected_frames, 4, 5)>>

FilesOfRun == {f \in files : f.run = run}
EntriesOfRun == {i \in 1 .. Len(ledger) : ledger[i].run = run}

\* C8 as stated: a run that fails at any step has written no artifact file
\* and has no entry in the cost ledger.
C8_FailedRunLeavesNothing ==
    runpc = "failed" => (FilesOfRun = {} /\ EntriesOfRun = {})

\* C8 as amended: a run that fails in load_video_data or in evaluate has
\* written no artifact file and has no entry in the cost ledger; a run that
\* fails in save_evaluation has written no complete artifact, and the ledger
\* entry evaluate appended for it stays (the CLI backend always has one).
C8_FailedBeforeSaveLeavesNothing ==
    runpc = "failed" =>
        /\ failed_at \in {"load_video_data", "sample_frames", "evaluate"} =>
               (FilesOfRun = {} /\ EntriesOfRun = {})
        /\ failed_at = "save_evaluation" =>
               /\ \A f \in FilesOfRun : ~f.complete
               /\ Cardinality(EntriesOfRun) <= 1
               /\ backend = "claude" => Cardinality(EntriesOfRun) = 1

C8_Witness ==
    /\ runpc = "failed"
    /\ failed_at = "evaluate"
    /\ run = 2
    /\ Len(ledger) = 1
    /\ Cardinality(files) = 1

\* C9: an artifact that save_evaluation wrote stays as written, each later
\* save making a new file: after k successful saves k artifacts exist.
C9_EverySaveLeavesItsArtifact ==
    Cardinality({f \in files : f.complete}) = saves

\* C10: when the list has at most max_frames frames, sample_frames returns
\* it unchanged under each of the strategies even, all, first_n, last_n.
C10_ShortListReturnedUnchanged ==
    (s_pc = "done" /\ Len(s_frames) <= s_max /\ s_strategy \in Strategies) =>
        (s_result.ok /\ s_result.frames = s_frames)

C10_Witness ==
    /\ s_pc = "done"
    /\ s_strategy = "even"
    /\ Len(s_frames) = 2
    /\ s_max = 3
    /\ s_result.frames = s_frames


\* The indices of all_frames at which the frames of a result were taken
\* (frame paths are distinct, FrameList(n)[k] = k, so a frame names its index).
IndexOf(all_frames, f) == (CHOOSE k \in 1 .. Len(all_frames) : all_frames[k] = f) - 1

\* C11: for every frame list and every max_frames from 0 to len(frames),
\* strategy even returns exactly max_frames frames, taken at the strictly
\* increasing indices floor(i * len(frames) / max_frames), i = 0 .. max_frames-1,
\* the first of which is index 0.
C11_EvenReturnsMaxFramesAtFloorIndices ==
    (s_pc = "done" /\ s_strategy = "even" /\ s_max >= 0 /\ s_max <= Len(s_frames)) =>
        /\ s_result.ok
        /\ Len(s_result.frames) = s_max
        /\ \A i \in 0 .. s_max - 1 :
               IndexOf(s_frames, s_result.frames[i + 1]) = (i * Len(s_frames)) \div s_max
        /\ \A i \in 1 .. s_max - 1 :
               IndexOf(s_frames, s_result.frames[i]) < IndexOf(s_frames, s_result.frames[i + 1])
        /\ (s_max > 0 => IndexOf(s_frames, s_result.frames[1]) = 0)

\* C12: sample_frames fails with the invalid-strategy error for every strategy
\* token other than even, all, first_n, last_n, whatever the frame list and
\* max_frames are (also when the list has at most max_frames frames).
C12_UnknownStrategyAlwaysFails ==
    (s_pc = "done" /\ s_strategy \notin Strategies) =>
        (~s_result.ok /\ s_result.err = "ValueError")

\* C13: for every frame list and every max_frames with
\* 0 <= max_frames < len(frames), first_n returns the first max_frames frames
\* and last_n the last max_frames frames, in the original order.
C13_FirstNLastNReturnExactlyMaxFrames ==
    (s_pc = "done" /\ s_max >= 0 /\ s_max < Len(s_frames)) =>
        /\ s_strategy = "first_n" =>
               (s_result.ok /\ s_result.frames = SubSeq(s_frames, 1, s_max))
        /\ s_strategy = "last_n" =>
               (s_result.ok /\ s_result.frames =
                    SubSeq(s_frames, Len(s_frames) - s_max + 1, Len(s_frames)))

\* C14: in the CLI-invoked backend, whatever max_frames was requested,
\* whatever the sampling strategy (all included) and the frame list, at most
\* 100 frames are enumerated in the prompt and reported as frames_analyzed,
\* and a request above 100 is capped to 100.
C14_AtMostFrameCapFrames ==
    /\ c_requested > FrameCap => c_max_frames = FrameCap
    /\ c_prompt.count <= FrameCap
    /\ Len(c_prompt.paths) <= FrameCap
    /\ c_result.frames_analyzed <= FrameCap

\* The outcomes of the external tool that C16 is about, for the legacy
\* evaluator (evaluator_claude_code.py) and for ClaudeEvaluator.
CliFailureCauses == {"nonzero_exit", "empty_stdout", "timeout"}

IsCliFailure(p) ==
    \/ p.kind = "timeout"
    \/ p.kind = "exited" /\ p.returncode # 0
    \/ p.kind = "exited" /\ \A k \in 1 .. Len(p.stdout) : p.stdout[k] \in Whitespace

\* C16: in the CLI-invoked backend, when the external tool exits with a
\* non-zero status, prints nothing or only whitespace on standard output, or
\* exceeds the timeout, the evaluation fails: no result is returned.
C16_CliFailureNeverReturnsAResult ==
    (variant = "cli" /\ rpc = "returned" /\ Len(causes) > 0) =>
        causes[Len(causes)] \notin CliFailureCauses

\* The same for ClaudeEvaluator.evaluate, with the cost ledger: this holds.
ClaudeCliFailureFailsEvaluate ==
    IsCliFailure(c_process) =>
        /\ cpc = "failed"
        /\ c_error.class = "RuntimeError"
        /\ c_result = NoClaudeResult
        /\ c_ledger = <<>>

\* The parts load_video_data needs.
RequiredPartsPresent ==
    /\ l_video_dir
    /\ l_metadata # "absent"
    /\ l_transcript_txt # "absent"
    /\ l_frames_dir
    /\ \E e \in l_entries : e.ext = "jpg"

\* C15: load_video_data returns an asset only when the video directory,
\* metadata.json, transcript.txt and the frames directory all exist and the
\* frames directory holds at least one frame image; when one of them is
\* missing, or no frame image is there, it fails and returns nothing of the
\* asset. transcript.json may be missing.
C15_AssetOnlyWhenAllPartsPresent ==
    lpc = "done" =>
        /\ l_result.ok => RequiredPartsPresent
        /\ ~RequiredPartsPresent =>
               (~l_result.ok /\ l_result.err # None /\ l_result.asset = NoAsset)
        /\ (RequiredPartsPresent /\ l_metadata = "valid"
                /\ l_transcript_json = "absent") =>
               (l_result.ok /\ l_result.asset.transcript_data = None)

C15_Witness ==
    /\ lpc = "done"
    /\ l_result.ok
    /\ l_transcript_json = "absent"
    /\ Len(l_result.asset.frames) = 2
    /\ \E e \in l_entries : e.ext # "jpg"

\* Whether an error message has a part with the given text.
HasPart(e, t) == \E k \in 1 .. Len(e.msg) : e.msg[k].text = t

IsBlockedError(e) ==
    HasPart(e, "Response blocked by safety filters. Categories: ")
IsEmptyError(e) == HasPart(e, "Gemini returned empty response")

\* The categories the ratings of the response say have blocked it.
BlockedSet(resp) ==
    {r.category : r \in {x \in Range(resp.candidates[1].safety_ratings) : x.blocked}}

\* C17: in the HTTP-invoked backend a response whose finish reason is the
\* safety block fails with the blocked-response error, which carries the
\* blocked categories, and never with the empty-response error; a response
\* that is not blocked and has an empty text fails with the empty-response
\* error and never with the blocked-response error.
C17_BlockedAndEmptyAreDistinct ==
    /\ (g_response.kind = "response" /\ g_response.candidates # <<>>
            /\ g_response.candidates[1].finish_reason = SafetyFinishReason) =>
           /\ gpc = "failed"
           /\ IsBlockedError(g_error)
           /\ ~IsEmptyError(g_error)
           /\ \E k \in 1 .. Len(g_error.msg) :
                  /\ g_error.msg[k].text = "Response blocked by safety filters. Categories: "
                  /\ Range(g_error.msg[k].categories) = BlockedSet(g_response)
    /\ (g_response.kind = "response" /\ ~g_response.text_raises
            /\ g_response.text = ""
            /\ (g_response.candidates = <<>>
                   \/ g_response.candidates[1].finish_reason # SafetyFinishReason)) =>
           /\ gpc = "failed"
           /\ IsEmptyError(g_error)
           /\ ~IsBlockedError(g_error)

\* A blocked response whose text is empty too, with one of two categories
\* blocking.
C17_Witness ==
    /\ gpc = "failed"
    /\ g_response.kind = "response"
    /\ g_response.candidates # <<>>
    /\ g_response.candidates[1].finish_reason = SafetyFinishReason
    /\ Len(g_response.candidates[1].safety_ratings) = 2
    /\ BlockedSet(g_response) = {"HARM_CATEGORY_DANGEROUS_CONTENT"}
    /\ g_response.text = ""
    /\ ~g_response.text_raises
    /\ IsBlockedError(g_error)

\* An identifier that is no key of the price table and neither contains a key
\* nor is contained in one; no identifier at all is one of these.
Unpriced(model_name) ==
    \/ model_name.absent
    \/ \A k \in 1 .. Len(PRICING) :
           /\ PRICING[k].key # model_name.chars
           /\ ~IsSubstring(PRICING[k].key, model_name.chars)
           /\ ~IsSubstring(model_name.chars, PRICING[k].key)

\* C18: calculate_cost never raises, and it returns 0.0 for every model
\* identifier that is neither a key of the price table nor related to one by
\* substring, the case of no identifier (model_name = None) included.
C18_UnknownModelCostsNothing ==
    k_pc = "done" =>
        /\ k_calc.ok
        /\ Unpriced(k_arg.model_name) => k_calc.cost = 0

\* The lines of the ledger whose model is m.
LinesOf(m) == {k \in 1 .. Len(k_lines) : k_lines[k].model = m}

RECURSIVE SumOver(_, _)
SumOver(f, S) ==
    IF S = {} THEN 0
    ELSE LET x == CHOOSE y \in S : TRUE IN f[x] + SumOver(f, S \ {x})

LineCosts == [k \in 1 .. Len(k_lines) |-> k_lines[k].cost]

\* C19: get_total_cost returns as total the sum of the costs of all lines and
\* as by_model[m] the sum of the costs of exactly the lines whose model is m,
\* so that the by_model values add up to total; without a ledger file it
\* returns total 0 and an empty by_model.
C19_TotalsAreSumsOfEntries ==
    k_out.called =>
        /\ k_out.total = SumOver(LineCosts, 1 .. Len(k_lines))
        /\ DOMAIN k_out.by_model = {k_lines[k].model : k \in 1 .. Len(k_lines)}
        /\ \A m \in DOMAIN k_out.by_model :
               k_out.by_model[m] = SumOver(LineCosts, LinesOf(m))
        /\ SumOver(k_out.by_model, DOMAIN k_out.by_model) = k_out.total
        /\ ~k_exists => (k_out.total = 0 /\ DOMAIN k_out.by_model = {})

\* Three lines, two of one model and one of another.
C19_Witness ==
    /\ k_out.called
    /\ Len(k_lines) = 3
    /\ k_lines[1].model = KeySonnet4
    /\ k_lines[2].model = KeyHaiku3
    /\ k_lines[3].model = KeySonnet4
    /\ k_out.by_model[KeySonnet4] = 2 * k_lines[1].cost
    /\ k_out.total > k_out.by_model[KeySonnet4]

IsPrefix(s, t) == Len(s) <= Len(t) /\ SubSeq(t, 1, Len(s)) = s

\* C20: the ledger is append-only: each log_evaluation_cost call adds exactly
\* one line at the end, the lines that were there stay as they were and in
\* their order, and nothing else changes the ledger.
C20_LedgerIsAppendOnly ==
    [][/\ IsPrefix(k_lines, k_lines')
       /\ Len(k_lines') = Len(k_lines) + (k_logged' - k_logged)
       /\ k_logged' - k_logged \in {0, 1}]_vars

C20_Witness ==
    /\ k_logged = 3
    /\ Len(k_lines) = 3
    /\ k_lines[1].model # k_lines[2].model
    /\ k_lines[1].cost > 0

\* C21: the cost ledger holds exactly one entry for an evaluate call that
\* returned a result, and none for a call that did not; stated here for the
\* Local Batch-Synthesize backend.
C21_OneLedgerEntryPerReturnedResult ==
    /\ opc = "done" => Len(o_ledger) = 1
    /\ opc # "done" => o_ledger = <<>>

CalcPriced == k_pc = "done" /\ ~k_arg.model_name.absent /\ k_arg.model_name.chars \in PricingKeys

CostOf(input_tokens, output_tokens) ==
    CalculateCostDouble(k_arg.model_name.chars, input_tokens, output_tokens)

\* C22 as the claim words it: for a model of the price table,
\* cost(model, 2*i, o) - cost(model, 0, o) = 2 * (cost(model, i, o) - cost(model, 0, o))
\* on the floats calculate_cost returns.
C22_DifferencesOfCostsDouble ==
    CalcPriced =>
        LET i == k_arg.input_tokens
            o == k_arg.output_tokens
        IN  DSub(CostOf(2 * i, o), CostOf(0, o)) = DTwice(DSub(k_double, CostOf(0, o)))

\* C22: for a model of the price table, doubling the input tokens doubles the
\* input-cost component exactly; the cost returned doubles exactly when there
\* are no output tokens, and the cost of the output tokens alone is the
\* output-cost component, whatever the input tokens were.
C22_InputComponentDoubles ==
    CalcPriced =>
        LET i == k_arg.input_tokens
            o == k_arg.output_tokens
            k == KeyIndex(k_arg.model_name.chars)
        IN  /\ InputCost(k, 2 * i) = DTwice(InputCost(k, i))
            /\ k_double = DAdd(InputCost(k, i), OutputCost(k, o))
            /\ CostOf(0, o) = OutputCost(k, o)
            /\ o = 0 => CostOf(2 * i, o) = DTwice(k_double)

C22_Witness ==
    /\ CalcPriced
    /\ k_arg.model_name.chars = KeySonnet4
    /\ k_arg.input_tokens = 1200
    /\ k_arg.output_tokens = 1200
    /\ k_double = DAdd(TrueDivide(36, 10000), TrueDivide(18, 1000))
    /\ InputCost(1, 2400) = TrueDivide(72, 10000)

\* The position of the evaluate call that is running, of whichever backend.
EvalPc == IF cpc # "idle" THEN cpc ELSE IF gpc # "idle" THEN gpc ELSE opc

\* The backend model has been called: the CLI was run, the request was
\* sent, a batch went to the vision model.
BackendInvoked ==
    c_process # NoProcess \/ g_response # NoResponse \/ vision_log # <<>> \/ synth_log # <<>>

ResultReturned ==
    c_result # NoClaudeResult \/ g_result # NoGeminiResult \/ o_result # NoResult

ErrorRaised ==
    c_error # NoExc \/ g_error # NoGeminiExc \/ o_error # NoOllamaError

EvalState ==
    IF EvalPc = "done" THEN "SUCCESS"
    ELSE IF EvalPc = "failed" THEN "FAILED"
    ELSE IF BackendInvoked THEN "BACKEND_INVOKED"
    ELSE IF EvalPc = "init" THEN "INIT"
    ELSE "FRAMES_SAMPLED"

\* C23 as the claim words it: every evaluate call follows INIT ->
\* FRAMES_SAMPLED -> BACKEND_INVOKED -> SUCCESS or FAILED, so a call that has
\* failed has invoked its backend.
C23_FailedOnlyAfterBackendInvoked ==
    EvalState = "FAILED" => BackendInvoked

EvalSuccessors(s) ==
    CASE s = "INIT" -> {"FRAMES_SAMPLED", "FAILED"}
      [] s = "FRAMES_SAMPLED" -> {"FRAMES_SAMPLED", "BACKEND_INVOKED", "FAILED"}
      [] s = "BACKEND_INVOKED" -> {"BACKEND_INVOKED", "SUCCESS", "FAILED"}
      [] OTHER -> {}

\* C23: an evaluate call of any backend goes INIT -> FRAMES_SAMPLED ->
\* BACKEND_INVOKED -> SUCCESS, the backend is never invoked before the frames
\* are sampled, FAILED can be entered from each of the three states before
\* SUCCESS, SUCCESS and FAILED are left by no step, a result is returned in
\* SUCCESS only and an error raised in FAILED only.
C23_EvaluateStateMachine ==
    /\ [](/\ EvalPc = "init" => ~BackendInvoked
          /\ ResultReturned <=> EvalState = "SUCCESS"
          /\ ErrorRaised <=> EvalState = "FAILED"
          /\ EvalState = "SUCCESS" => BackendInvoked)
    /\ [][EvalState' \in EvalSuccessors(EvalState)]_vars

C23_Witness ==
    /\ EvalState = "FAILED"
    /\ gpc = "failed"
    /\ ~BackendInvoked
    /\ g_selected # <<>>

\* The batches whose analysis failed.
FailedBatches == {k \in 1 .. Len(vision_log) : ~vision_log[k].ok}

\* C24: when some batches failed and the synthesis succeeded, the
\* evaluation_markdown of the result shows a failure marker for each failed
\* batch.
C24_MarkdownMarksEveryFailedBatch ==
    opc = "done" => FailedBatches \subseteq o_result.evaluation_markdown.markers

\* C25: a result of the Local Batch-Synthesize backend reports num_batches =
\* batches_processed = ceil(frames_analyzed / batch_size), failed batches
\* counted, with the batch_size, the vision model and the synthesis model of
\* the evaluator; the sizes of the batches that were sent follow from
\* frames_analyzed and batch_size.
C25_MetadataGivesTheBatchPlan ==
    opc = "done" =>
        LET r == o_result
        IN  /\ r.num_batches = CeilDiv(r.frames_analyzed, r.batch_size)
            /\ r.batches_processed = r.num_batches
            /\ r.num_batches = Len(vision_log)
            /\ r.frames_analyzed = Len(selected_frames)
            /\ r.batch_size = batch_size
            /\ r.vision_model = o_models.vision_model
            /\ r.synthesis_model = o_models.synthesis_model
            /\ \A k \in 1 .. r.num_batches :
                 Len(vision_log[k].images) =
                     Min(r.batch_size, r.frames_analyzed - (k - 1) * r.batch_size)

C25_Witness ==
    /\ opc = "done"
    /\ o_result.frames_analyzed = 5
    /\ o_result.batch_size = 2
    /\ o_result.num_batches = 3
    /\ FailedBatches = {1, 3}
    /\ o_result.vision_model = "llava:13b"

\* C26: a result the CLI backend returns carries the cost of the call: the
\* cost handed to the catalog with the result is the cost of the ledger
\* entry the call appended.
C26_ResultCarriesLedgerCost ==
    cpc = "done" =>
        CatalogCost(c_result) = [present |-> TRUE, value |-> c_ledger[Len(c_ledger)].cost]

\* The versions of the rows of a pair, in insertion order.
VersionsOf(rows, pair) ==
    LET of == SelectSeq(rows, LAMBDA r : r.pair = pair)
    IN  [k \in 1 .. Len(of) |-> of[k].version]

\* C27: for each (video, rubric) pair the versions upsert_evaluation assigned
\* are 1, 2, 3, ... in insertion order, pairwise distinct, also when calls
\* for the same pair interleave between reading the next version and
\* inserting the record.
C27_VersionsDistinctAndIncreasing ==
    \A pair \in Pairs :
        \A k \in 1 .. Len(VersionsOf(d_rows, pair)) : VersionsOf(d_rows, pair)[k] = k

AllClosed == \A w \in Writers : a_pc[w] = "closed"

\* C30: when the evaluations that ran side by side have all appended their
\* entry, the ledger is its earlier lines, unchanged, followed by the
\* entries of the evaluations, each as one line, in some order, and
\* get_total_cost gives the earlier total plus the costs of these entries.
C30_ConcurrentAppendsKeepEveryEntry ==
    AllClosed =>
        LET n == Len(a_earlier)
        IN  /\ IsPrefix(a_earlier, a_file)
            /\ Len(a_file) = n + MaxWriters
            /\ \E f \in [Writers -> Writers] :
                 /\ \A v, w \in Writers : f[v] = f[w] => v = w
                 /\ \A w \in Writers : a_file[n + w] = a_entry[f[w]]
            /\ a_out.called =>
                 a_out.total * NanoPerUnit =
                     GetTotalCost(TRUE, a_earlier).total * NanoPerUnit + SumCosts(a_entry)

C30_Witness ==
    /\ AllClosed
    /\ a_out.called
    /\ a_earlier # <<>>
    /\ a_entry[1] # a_entry[2]
    /\ a_file[Len(a_file)] = a_entry[1]
    /\ a_out.total > GetTotalCost(TRUE, a_earlier).total

\* C28: for every integer max_retries, when evaluate_with_retry returns, at
\* least one attempt was made, the last attempt is the only one that
\* succeeded, and the value returned is the evaluation text of that attempt.
C28_ReturnsOnlyAfterASuccess ==
    rpc = "returned" =>
        /\ Len(causes) >= 1
        /\ \A i \in 1 .. Len(causes) :
             EvaluateVideo(variant, causes[i]).ok <=> i = Len(causes)
        /\ returned = EvaluateVideo(variant, causes[Len(causes)]).text

\* C29: in a result of the HTTP backend frames_analyzed is the number of
\* frame images submitted in the request, which is the number of sampled
\* frames: every sampled frame was loaded and sent.
C29_FramesAnalyzedAreTheFramesSent ==
    gpc = "done" =>
        /\ g_result.frames_analyzed = Len(g_sent)
        /\ g_sent = g_selected
====
